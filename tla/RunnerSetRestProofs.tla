------------------------ MODULE RunnerSetRestProofs ------------------------
(***************************************************************************)
(* The set at rest: once nothing is left that could wake the controller,   *)
(* the set has the Runners and the revision its spec asks for, and its     *)
(* status says so.                                                         *)
(***************************************************************************)
EXTENDS RunnerSetHistoryProofs

\* a revision the cache shows exists: either the cache is not behind when it
\* is read, or nobody deletes revisions
ListedRevisionsExist == CachesKeepUp \/ ~RoleDeletesRevisions

\* MakeHistory lists all revisions there are
Orderly == CachesKeepUp /\ TemplatesMatch

-----------------------------------------------------------------------------
(* No change of a Runner of the set goes unnoticed.                        *)

\* nothing is under way that could wake the controller on account of Runners
Undisturbed == ~queued /\ ~owed /\ \A n \in Owned : ~runners[n].deleting

\* but for events on their way, the cache is right about the set's Runners
CacheKnowsOurs ==
    ~owed => \A n \in Names : \/ runnerCache[n] = runners[n]
                              \/ "us" \notin {runnerCache[n].owner, runners[n].owner}

\* a step leaves the Runners of the set alone
OursSame == \A n \in Names : \/ runners'[n] = runners[n]
                             \/ "us" \notin {runners[n].owner, runners'[n].owner}

\* a step writes one Runner at most
RunnerWrite == UNCHANGED <<runners, owed>> \/ \E n \in Names : \E r : WriteRunner(n, r)

\* A write that owes no event leaves the Runners of the set alone.
LEMMA WriteNoticed ==
    ASSUME SetInv, RunnerWrite, ~owed' PROVE ~owed /\ OursSame
<1>1. CASE UNCHANGED <<runners, owed>>
  BY <1>1 DEF OursSame
<1>2. ASSUME NEW n \in Names, NEW r, WriteRunner(n, r) PROVE ~owed /\ OursSame
  <2>1. runners' = [runners EXCEPT ![n] = r] /\ runners \in [Names -> RunnerCopy]
    BY <1>2 DEF WriteRunner, SetInv, ServerTyped
  <2>2. runners'[n] = r /\ \A m \in Names \ {n} : runners'[m] = runners[m]
    BY <2>1
  <2>3. ~owed /\ (r = runners[n] \/ "us" \notin {runners[n].owner, r.owner})
    BY <1>2 DEF WriteRunner
  <2>4. QED
    BY <2>2, <2>3 DEF OursSame
<1>3. QED
  BY <1>1, <1>2 DEF RunnerWrite

\* The Runners of the set are then the same.
LEMMA SameOwned ==
    ASSUME OursSame PROVE Owned' = Owned /\ \A n \in Owned : runners'[n] = runners[n]
BY DEF OursSame, Owned

\* A deletion is a write, and one of a Runner of the set is noticed.
LEMMA DeletedNoticed ==
    ASSUME SetInv, NEW n \in Names, Deleted(n)
    PROVE  RunnerWrite /\ (~owed' /\ n \in Owned => runners[n].deleting)
<1>1. RunnerWrite
  BY DEF Deleted, RunnerWrite
<1>2. ASSUME ~owed', n \in Owned PROVE runners[n].deleting
  <2>1. runners[n] \in RunnerCopy /\ runners[n].exists /\ runners[n].owner = "us"
    BY <1>2 DEF SetInv, ServerTyped, Owned
  <2>2. CASE WriteRunner(n, [runners[n] EXCEPT !.deleting = TRUE])
    <3>1. PICK r : r = [runners[n] EXCEPT !.deleting = TRUE]
      OBVIOUS
    <3>2. r.deleting
      BY <2>1, <3>1 DEF RunnerCopy
    <3>3. r = runners[n]
      BY <1>2, <2>1, <2>2, <3>1 DEF WriteRunner
    <3>4. QED
      BY <3>2, <3>3
  <2>3. CASE WriteRunner(n, NoRunner)
    <3>1. NoRunner # runners[n]
      BY <2>1 DEF NoRunner
    <3>2. QED
      BY <1>2, <2>1, <2>3, <3>1 DEF WriteRunner
  <2>4. QED
    BY <2>1, <2>2, <2>3 DEF Deleted
<1>3. QED
  BY <1>1, <1>2

\* What users, Runners and the garbage collector do is such a write, and
\* the informers write nothing.
LEMMA OthersWrite ==
    ASSUME SetInv, Others
    PROVE  \/ SyncRunnerCache
           \/ RunnerWrite /\ UNCHANGED runnerCache /\ (queued => queued')
<1>1. ASSUME NEW n \in Names, RemoveRunner(n) \/ CollectRunner(n)
      PROVE  RunnerWrite /\ UNCHANGED <<runnerCache, queued>>
  BY <1>1, DeletedNoticed DEF RemoveRunner, CollectRunner, caches
<1>2. ASSUME NEW n \in Names, CreateOrphan(n) \/ OtherAdopts(n) \/ ReportPhase(n) \/ RunnerGone(n)
      PROVE  RunnerWrite /\ UNCHANGED <<runnerCache, queued>>
  BY <1>2 DEF CreateOrphan, OtherAdopts, ReportPhase, RunnerGone, RunnerWrite, caches
<1>3. CASE EditSet \/ DeleteSet \/ CollectSet \/ SyncSet \/ SyncRevisions
  BY <1>3 DEF EditSet, EditSpec, DeleteSet, CollectSet, SyncSet, SyncRevisions, RunnerWrite,
              server, caches
<1>4. QED
  BY <1>1, <1>2, <1>3 DEF Others, Users, Runners, Informers

\* A reconcile writes one Runner at a time and touches no cache.
LEMMA MidWrite ==
    ASSUME SetInv, MidStep
    PROVE  RunnerWrite /\ UNCHANGED <<runnerCache, revCache, queued>>
<1>1. UNCHANGED <<runnerCache, revCache, queued>>
  BY DEF MidStep, MakeHistory, BumpRevision, CreateRevision, FindRunners, SyncRunners,
         CreateRunner, Finish, AdoptRunner, DiscardRunner, DeleteRunner, TruncateHistory,
         caches
<1>2. CASE \/ MakeHistory \/ BumpRevision \/ CreateRevision
           \/ FindRunners \/ SyncRunners \/ Finish
           \/ \E name \in drop : TruncateHistory(name)
  <2>1. UNCHANGED <<runners, owed>>
    BY <1>2 DEF MakeHistory, BumpRevision, CreateRevision, FindRunners, SyncRunners, Finish,
                TruncateHistory, CallFails, server
  <2>2. QED
    BY <1>1, <2>1 DEF RunnerWrite
<1>3. CASE CreateRunner
  <2>1. \/ UNCHANGED <<runners, owed>>
        \/ \E n \in FreshNames : WriteRunner(n, NewRunner)
    BY <1>3 DEF CreateRunner, CallFails, server
  <2>2. QED
    BY <1>1, <2>1 DEF RunnerWrite, FreshNames
<1>4. ASSUME NEW n \in Names, AdoptRunner(n) \/ DiscardRunner(n) \/ DeleteRunner(n)
      PROVE  RunnerWrite
  BY <1>4, DeletedNoticed DEF AdoptRunner, DiscardRunner, DeleteRunner, CallFails, server,
                              RunnerWrite
<1>5. QED
  BY <1>1, <1>2, <1>3, <1>4 DEF MidStep

\* After a write the cache is as right as before.
LEMMA CacheStillKnows ==
    ASSUME SetInv, CacheKnowsOurs, RunnerWrite, UNCHANGED runnerCache
    PROVE  CacheKnowsOurs'
<1> SUFFICES ASSUME ~owed', NEW n \in Names
             PROVE  \/ runnerCache[n] = runners'[n]
                    \/ "us" \notin {runnerCache[n].owner, runners'[n].owner}
  BY DEF CacheKnowsOurs
<1>1. ~owed /\ OursSame
  BY WriteNoticed
<1>2. QED
  BY <1>1 DEF CacheKnowsOurs, OursSame

\* The cache stays right about the Runners of the set.
LEMMA CacheStep == SetInv /\ CacheKnowsOurs /\ [Next]_vars => CacheKnowsOurs'
<1> SUFFICES ASSUME SetInv, CacheKnowsOurs, [Next]_vars PROVE CacheKnowsOurs'
  OBVIOUS
<1>1. CASE Others
  <2>1. CASE SyncRunnerCache
    BY <2>1 DEF SyncRunnerCache, CacheKnowsOurs
  <2>2. QED
    BY <1>1, <2>1, OthersWrite, CacheStillKnows
<1>2. CASE RestartManager
  BY <1>2, RestartEndsReconcile DEF Restart, CacheKnowsOurs
<1>3. CASE MidStep
  BY <1>3, MidWrite, CacheStillKnows
<1>4. CASE UNCHANGED vars \/ Reconcile \/ PatchStatus
  <2>1. UNCHANGED <<runners, owed, runnerCache>>
    BY <1>4 DEF vars, Reconcile, PatchStatus, CallFails, server, caches
  <2>2. QED
    BY <2>1 DEF CacheKnowsOurs
<1>5. QED
  BY <1>1, <1>2, <1>3, <1>4, StepKinds

\* Where nothing wakes the controller after a step, nothing did before it,
\* and the Runners of the set are the same.
LEMMA StillUndisturbed ==
    ASSUME SetInv, Undisturbed', Others \/ MidStep \/ UNCHANGED vars
    PROVE  Undisturbed /\ OursSame
<1>1. ~queued' /\ ~owed' /\ \A n \in Owned' : ~runners'[n].deleting
  BY DEF Undisturbed
<1>2. ~queued /\ ~owed /\ OursSame
  <2>1. CASE SyncRunnerCache
    BY <1>1, <2>1 DEF SyncRunnerCache, OursSame
  <2>2. CASE UNCHANGED vars
    BY <1>1, <2>2 DEF vars, OursSame
  <2>3. CASE RunnerWrite /\ (queued => queued')
    BY <1>1, <2>3, WriteNoticed
  <2>4. QED
    BY <2>1, <2>2, <2>3, OthersWrite, MidWrite
<1>3. QED
  BY <1>1, <1>2, SameOwned DEF Undisturbed

-----------------------------------------------------------------------------
(* The revision of the template exists.                                    *)

\* none of the revisions comes after r
Newest(r) == \A q \in revs : ~Less(r, q)

\* r is the revision MakeHistory is about
IsRev(r) == r.name = rev.name /\ r.data = rev.data

\* where no revision is deleted, those in the cache exist
CacheExists ==
    ~RoleDeletesRevisions
       => \A r \in revCache : \E q \in revs : q.name = r.name /\ q.data = r.data

\* MakeHistory is done
Settling == {"find", "examine"} \cup AfterFind

RevisionFound ==
    /\ pc \in HasRevision => rev.data = before.spec.template
    /\ pc = "bump" => (\E r \in listed : IsRev(r)) /\ (\E r \in revs : IsRev(r))
    /\ pc \in {"bump", "create"} /\ Orderly => \A q \in revs : q.number < rev.number
    /\ pc \in Settling => \E r \in revs : IsRev(r) /\ (Orderly => Newest(r))
    /\ pc = "truncate" => rev.name \notin drop

HistoryKnown == CacheExists /\ NextIsRev /\ RevisionFound /\ (Orderly => HistoryInv)

\* The next revision number is higher than those of the revisions there are.
LEMMA NextNumberIsHighest ==
    ASSUME NEW S, Distinguished(S) PROVE \A q \in S : q.number < NextRevisionNumber(S)
<1> SUFFICES ASSUME NEW q \in S PROVE q.number < NextRevisionNumber(S)
  OBVIOUS
<1>1. Latest(S) \in S /\ (q = Latest(S) \/ Less(q, Latest(S)))
  BY LatestIsLast
<1>2. q.number \in Nat /\ Latest(S).number \in Nat /\ NextRevisionNumber(S) = Latest(S).number + 1
  BY <1>1 DEF Distinguished, RevisionObject, NextRevisionNumber
<1>3. q.number <= Latest(S).number
  BY <1>1, <1>2 DEF Less
<1>4. QED
  BY <1>2, <1>3

\* The last of all revisions is the newest.
LEMMA LatestIsNewest ==
    ASSUME SetInv, revs # {} PROVE Latest(revs) \in revs /\ Newest(Latest(revs))
<1>1. Distinguished(revs)
  BY DEF SetInv, ServerTyped
<1>2. \A r \in revs : r.number \in Nat /\ r.born \in Nat
  BY <1>1 DEF Distinguished, RevisionObject
<1>3. Latest(revs) \in revs /\ \A q \in revs \ {Latest(revs)} : Less(q, Latest(revs))
  BY <1>1, LatestIsLast
<1>4. QED
  BY <1>2, <1>3 DEF Newest, Less

\* A revision that a read of the cache shows exists.
LEMMA CachedExists ==
    ASSUME ListedRevisionsExist, CacheExists, Reads(revCache, revs), NEW r \in revCache
    PROVE  \E q \in revs : q.name = r.name /\ q.data = r.data
BY ReadsTruth DEF ListedRevisionsExist, CacheExists

\* MakeHistory finds the revision of the template, or is about to write it.
LEMMA MakeHistoryKnown ==
    ASSUME ListedRevisionsExist, SetInv, HistoryKnown, MakeHistory
    PROVE  CacheExists' /\ NextIsRev' /\ RevisionFound'
<1> DEFINE R == ListRevision
           next == NextRevision(before.spec, st.collisions, R)
           equal == FindEqual(R, next)
<1>1. /\ pc = "history" /\ listed' = R /\ UNCHANGED <<revs, revCache, before>>
      /\ Reads(revCache, revs)
  BY DEF MakeHistory, server, caches
<1>2. CacheExists'
  BY <1>1 DEF HistoryKnown, CacheExists
<1>3. R \in SUBSET revCache /\ Distinguished(R) /\ equal \in SUBSET R /\ Distinguished(equal)
  BY ListRevisionType DEF SetInv, CachesTyped, ListRevision, FindEqual
<1>4. \A r \in R : \E q \in revs : q.name = r.name /\ q.data = r.data
  BY <1>1, <1>3, CachedExists DEF HistoryKnown
<1>5. Orderly => R = revs
  BY <1>1, ListsAll DEF Orderly, HistoryKnown, HistoryInv
<1>6. equal # {} => Latest(equal) \in equal /\ Latest(R) \in R
  BY <1>3, LatestIsLast
<1>7. next.data = before.spec.template /\ next.number = NextRevisionNumber(R)
  BY DEF NextRevision, ObjectPatch
<1>8. \A r \in equal : r.data = before.spec.template
  BY <1>7 DEF FindEqual, IsEqual
<1>9. Orderly => \A q \in revs : q.number < next.number
  BY <1>3, <1>5, <1>7, NextNumberIsHighest
<1>10. CASE /\ equal # {} /\ IsEqual(Latest(R), Latest(equal))
            /\ rev' = Latest(R) /\ Settle(Latest(R).name, R)
  <2>1. rev'.data = before.spec.template
    BY <1>6, <1>8, <1>10 DEF IsEqual
  <2>2. pc' = "panic" \/ (pc' = "find" /\ st'.next = rev'.name)
    BY <1>10, SettleNext
  <2>3. \E r \in revs : r.name = rev'.name /\ r.data = rev'.data /\ (Orderly => Newest(r))
    <3>1. CASE Orderly
      BY <1>5, <1>6, <1>10, <3>1, LatestIsNewest
    <3>2. CASE ~Orderly
      BY <1>4, <1>6, <1>10, <3>2
    <3>3. QED
      BY <3>1, <3>2
  <2>4. RevisionFound'
    BY <1>1, <2>1, <2>2, <2>3 DEF RevisionFound, HasRevision, Settling, AfterFind, IsRev, Newest
  <2>5. NextIsRev'
    BY <2>2 DEF NextIsRev, AfterFind
  <2>6. QED
    BY <1>2, <2>4, <2>5
<1>11. CASE /\ equal # {} /\ rev' = [Latest(equal) EXCEPT !.number = next.number]
            /\ Goto("bump")
  <2>1. Latest(equal) \in R /\ Latest(equal) \in RevisionObject
    BY <1>3, <1>6, <1>11 DEF Distinguished
  <2>2. Latest(equal).data = before.spec.template
    BY <1>6, <1>8, <1>11
  <2> HIDE DEF equal, next, R
  <2>3. /\ rev'.name = Latest(equal).name /\ rev'.data = Latest(equal).data
        /\ rev'.number = next.number
    BY <1>11, <2>1 DEF RevisionObject
  <2>4. pc' = "bump"
    BY <1>11 DEF Goto
  <2>5. RevisionFound'
    BY <1>1, <1>4, <1>9, <2>1, <2>2, <2>3, <2>4
    DEF RevisionFound, Settling, AfterFind, IsRev
  <2>6. QED
    BY <1>2, <2>4, <2>5 DEF NextIsRev, AfterFind
<1>12. CASE rev' = next /\ Goto("create")
  <2> HIDE DEF equal, next, R
  <2>1. pc' = "create"
    BY <1>12 DEF Goto
  <2>2. RevisionFound'
    BY <1>1, <1>7, <1>9, <1>12, <2>1 DEF RevisionFound, Settling, AfterFind
  <2>3. QED
    BY <1>2, <2>1, <2>2 DEF NextIsRev, AfterFind
<1>13. QED
  BY <1>10, <1>11, <1>12 DEF MakeHistory

\* Once MakeHistory ends well its revision is the next one; an error or a
\* panic promises nothing.
LEMMA SettledKnown ==
    ASSUME SetInv, Settle(rev.name, listed), UNCHANGED <<rev, before>>,
           rev.data = before.spec.template,
           \E r \in revs' : IsRev(r) /\ (Orderly => Newest(r)')
    PROVE  NextIsRev' /\ RevisionFound'
<1>1. pc' = "panic" \/ (pc' = "find" /\ st'.next = rev'.name)
  BY SettleNext
<1>2. NextIsRev'
  BY <1>1 DEF NextIsRev, AfterFind
<1>3. RevisionFound'
  BY <1>1 DEF RevisionFound, HasRevision, Settling, AfterFind, IsRev
<1>4. QED
  BY <1>2, <1>3

\* before MakeHistory, and after an error or a panic
NoClaim == {"idle", "history", "patch", "panic"}

\* There nothing is claimed of the history.
LEMMA NothingKnown ==
    ASSUME pc' \in NoClaim PROVE NextIsRev' /\ RevisionFound'
BY DEF NoClaim, NextIsRev, RevisionFound, HasRevision, Settling, AfterFind

\* BumpRevision keeps every revision, and leaves its own as the newest; after
\* a conflict it finds its revision there, with another number.
LEMMA BumpKnown ==
    ASSUME SetInv, HistoryKnown, BumpRevision
    PROVE  CacheExists' /\ NextIsRev' /\ RevisionFound'
<1> DEFINE onServer == {r \in revs : r.name = rev.name}
<1>1. /\ pc = "bump" /\ UNCHANGED <<rev, before, revCache, listed>>
      /\ rev \in RevisionObject /\ rev.data = before.spec.template
  BY DEF BumpRevision, caches, HistoryKnown, RevisionFound, HasRevision, SetInv, WorkerTyped,
         RevisionTyped
<1>2. \A r \in onServer \cap listed : r.data = rev.data
  BY <1>1 DEF HistoryKnown, RevisionFound, IsRev, SetInv, WorkerTyped, RevisionTyped,
              Distinguished
<1>3. CASE UNCHANGED revs /\ ReturnError
  <2>1. CacheExists'
    BY <1>1, <1>3 DEF HistoryKnown, CacheExists
  <2>2. QED
    BY <1>3, <2>1, NothingKnown DEF ReturnError, NoClaim
<1>4. CASE /\ onServer \subseteq listed /\ revs' = (revs \ onServer) \cup {rev}
           /\ Settle(rev.name, listed)
  <2>1. CacheExists'
    <3> SUFFICES ASSUME ~RoleDeletesRevisions, NEW r \in revCache
                 PROVE  \E q \in revs' : q.name = r.name /\ q.data = r.data
      BY <1>1 DEF CacheExists
    <3>1. PICK q \in revs : q.name = r.name /\ q.data = r.data
      BY DEF HistoryKnown, CacheExists
    <3>2. CASE q \in onServer
      BY <1>2, <1>4, <3>1, <3>2
    <3>3. QED
      BY <1>4, <3>1, <3>2
  <2>2. Orderly => Newest(rev)'
    <3> SUFFICES ASSUME Orderly, NEW q \in revs' PROVE ~Less(rev, q)
      BY <1>1 DEF Newest
    <3>1. CASE q = rev
      BY <1>1, <3>1 DEF Less, RevisionObject
    <3>2. CASE q \in revs
      <4>1. q.number < rev.number /\ q.number \in Nat /\ rev.number \in Nat
        BY <1>1, <3>2
        DEF HistoryKnown, RevisionFound, SetInv, ServerTyped, Distinguished, RevisionObject
      <4>2. QED
        BY <4>1 DEF Less
    <3>3. QED
      BY <1>4, <3>1, <3>2
  <2>3. \E r \in revs' : IsRev(r) /\ (Orderly => Newest(r)')
    BY <1>1, <1>4, <2>2 DEF IsRev, Newest
  <2>4. QED
    BY <1>1, <1>4, <2>1, <2>3, SettledKnown
<1>5. CASE ~(onServer \subseteq listed) /\ UNCHANGED revs /\ Settle(rev.name, listed)
  <2>1. CacheExists'
    BY <1>1, <1>5 DEF HistoryKnown, CacheExists
  <2>2. ~Orderly
    BY <1>1, <1>5 DEF HistoryKnown, HistoryInv, ListIsTrue
  <2>3. \E r \in revs' : IsRev(r) /\ (Orderly => Newest(r)')
    BY <1>1, <1>5, <2>2 DEF HistoryKnown, RevisionFound
  <2>4. QED
    BY <1>1, <1>5, <2>1, <2>3, SettledKnown
<1>6. QED
  BY <1>3, <1>4, <1>5 DEF BumpRevision, CallFails, server

\* CreateRevision adds the revision, or finds it.
LEMMA CreateKnown ==
    ASSUME ListedRevisionsExist, SetInv, HistoryKnown, CreateRevision
    PROVE  CacheExists' /\ NextIsRev' /\ RevisionFound'
<1>1. /\ pc = "create" /\ UNCHANGED <<rev, before, revCache, listed>>
      /\ rev \in RevisionObject /\ rev.data = before.spec.template
  BY DEF CreateRevision, caches, HistoryKnown, RevisionFound, HasRevision, SetInv, WorkerTyped,
         RevisionTyped
<1>2. revs \subseteq revs'
  BY DEF CreateRevision, CallFails, server
<1>3. CacheExists'
  BY <1>1, <1>2 DEF HistoryKnown, CacheExists
<1>4. CASE /\ revs' = revs \cup {[rev EXCEPT !.born = Born(revs)]}
           /\ Settle(rev.name, listed)
  <2>1. PICK new : new = [rev EXCEPT !.born = Born(revs)]
    OBVIOUS
  <2>2. /\ IsRev(new) /\ new.number = rev.number /\ new.number \in Nat
        /\ new.born = Born(revs) /\ Born(revs) \in Nat
    BY <1>1, <2>1, BornIsNew DEF RevisionObject, IsRev, SetInv, ServerTyped
  <2>3. Orderly => \A q \in revs' : ~Less(new, q)
    <3> SUFFICES ASSUME Orderly, NEW q \in revs' PROVE ~Less(new, q)
      OBVIOUS
    <3>1. CASE q = new
      BY <2>2, <3>1 DEF Less
    <3>2. CASE q \in revs
      <4>1. q.number < new.number /\ q.number \in Nat
        BY <1>1, <2>2, <3>2
        DEF HistoryKnown, RevisionFound, SetInv, ServerTyped, Distinguished, RevisionObject
      <4>2. QED
        BY <2>2, <4>1 DEF Less
    <3>3. QED
      BY <1>4, <2>1, <3>1, <3>2
  <2>4. \E r \in revs' : IsRev(r) /\ (Orderly => Newest(r)')
    BY <1>4, <2>1, <2>2, <2>3 DEF Newest
  <2>5. QED
    BY <1>1, <1>3, <1>4, <2>4, SettledKnown
<1>5. CASE /\ \E r \in revCache : r.name = rev.name /\ IsEqual(r, rev)
           /\ UNCHANGED revs /\ Settle(rev.name, listed) /\ Reads(revCache, revs)
  <2>1. PICK r \in revs : IsRev(r)
    BY <1>5, CachedExists DEF HistoryKnown, IsEqual, IsRev
  <2>2. ~Orderly
    BY <1>1, <2>1 DEF HistoryKnown, HistoryInv, ListIsTrue, IsRev, IsEqual
  <2>3. QED
    BY <1>1, <1>3, <1>5, <2>1, <2>2, SettledKnown
<1>6. CASE UNCHANGED <<revs, pc>>
  BY <1>1, <1>3, <1>6
  DEF HistoryKnown, NextIsRev, RevisionFound, HasRevision, Settling, AfterFind
<1>7. CASE ReturnError
  BY <1>3, <1>7, NothingKnown DEF ReturnError, NoClaim
<1>8. QED
  BY <1>4, <1>5, <1>6, <1>7 DEF CreateRevision, server

\* The steps on Runners, between MakeHistory and the end of a reconcile.
RunnerSteps ==
    \/ FindRunners \/ SyncRunners \/ CreateRunner
    \/ \E n \in Names : AdoptRunner(n) \/ DiscardRunner(n) \/ DeleteRunner(n)

\* They leave the history and what the reconcile knows of it alone.
LEMMA RunnerStepsSpare ==
    ASSUME SetInv, RunnerSteps
    PROVE  /\ UNCHANGED <<revs, revCache, rev, before>> /\ st'.next = st.next
           /\ pc \in {"find", "examine", "createRunner", "deleteRunner"}
           /\ pc' \in {"examine", "createRunner", "deleteRunner", "finish", "patch"}
<1>1. UNCHANGED <<revs, revCache, rev, before>>
  BY DEF RunnerSteps, FindRunners, SyncRunners, CreateRunner, AdoptRunner, DiscardRunner,
         DeleteRunner, CallFails, server, caches
<1>2. st'.next = st.next
  <2>1. st \in SetStatus
    BY DEF SetInv, WorkerTyped
  <2>2. QED
    BY <2>1 DEF RunnerSteps, FindRunners, SyncRunners, CreateRunner, AdoptRunner,
                DiscardRunner, DeleteRunner, CountedStatus, SetStatus
<1>3. /\ pc \in {"find", "examine", "createRunner", "deleteRunner"}
      /\ pc' \in {"examine", "createRunner", "deleteRunner", "finish", "patch"}
  BY DEF RunnerSteps, FindRunners, SyncRunners, CreateRunner, AdoptRunner, DiscardRunner,
         DeleteRunner, Goto, LoopTo
<1>4. QED
  BY <1>1, <1>2, <1>3

\* Finish chooses the revisions to delete, and not the next one.
LEMMA FinishKnown ==
    ASSUME SetInv, HistoryKnown, Finish
    PROVE  CacheExists' /\ NextIsRev' /\ RevisionFound'
<1>1. /\ pc = "finish" /\ pc' \in {"patch", "truncate"}
      /\ UNCHANGED <<revs, revCache, rev, before>>
      /\ st' = [st EXCEPT !.current = CurrentRevision]
      /\ pc' = "truncate" => drop' \subseteq Histories
  BY DEF Finish, Goto, server, caches, Surplus
<1>2. st.next = rev.name /\ st'.next = st.next
  BY <1>1 DEF HistoryKnown, NextIsRev, AfterFind, SetInv, WorkerTyped, SetStatus
<1>3. rev.name \notin Histories
  BY <1>2 DEF Histories
<1>4. NextIsRev' /\ CacheExists'
  BY <1>1, <1>2 DEF NextIsRev, HistoryKnown, CacheExists
<1>5. RevisionFound'
  BY <1>1, <1>3
  DEF HistoryKnown, RevisionFound, HasRevision, Settling, AfterFind, IsRev, Newest
<1>6. QED
  BY <1>4, <1>5

\* So TruncateHistory leaves it.
LEMMA TruncateKnown ==
    ASSUME ListedRevisionsExist, SetInv, HistoryKnown, NEW name \in drop, TruncateHistory(name)
    PROVE  CacheExists' /\ NextIsRev' /\ RevisionFound'
<1>1. /\ pc = "truncate" /\ pc' \in {"truncate", "patch"}
      /\ UNCHANGED <<rev, before, st>> /\ drop' \subseteq drop
      /\ revs' \subseteq revs /\ \A r \in revs \ revs' : r.name \in drop
  BY TruncateEffect
<1>2. UNCHANGED revCache /\ (~RoleDeletesRevisions => UNCHANGED revs)
  BY DEF TruncateHistory, caches, CallFails, server
<1>3. CacheExists'
  BY <1>2 DEF HistoryKnown, CacheExists
<1>4. NextIsRev'
  BY <1>1 DEF HistoryKnown, NextIsRev, AfterFind
<1>5. /\ rev.name \notin drop /\ rev.data = before.spec.template
      /\ \E r \in revs : IsRev(r) /\ (Orderly => Newest(r))
  BY <1>1 DEF HistoryKnown, RevisionFound, HasRevision, Settling, AfterFind
<1>6. RevisionFound'
  BY <1>1, <1>5 DEF RevisionFound, HasRevision, IsRev, Newest
<1>7. QED
  BY <1>3, <1>4, <1>6

\* Every step keeps what is known of the history.
LEMMA HistoryKnownStep ==
    ASSUME ListedRevisionsExist PROVE SetInv /\ HistoryKnown /\ [Next]_vars => HistoryKnown'
<1> SUFFICES ASSUME SetInv, HistoryKnown, [Next]_vars
             PROVE  CacheExists' /\ NextIsRev' /\ RevisionFound'
  BY HistoryStep DEF HistoryKnown, Orderly
<1>1. CASE Others \/ UNCHANGED vars
  <2>1. UNCHANGED <<pc, st, rev, before, listed, drop, revs>>
    BY <1>1, OthersSpareWorker, QuietHistory DEF worker, vars, QuietStep
  <2>2. revCache' \in {revCache, revs}
    BY <1>1 DEF Others, Users, EditSet, EditSpec, DeleteSet, RemoveRunner, CreateOrphan,
       OtherAdopts, Runners, ReportPhase, RunnerGone, CollectRunner, CollectSet, Informers,
       SyncSet, SyncRunnerCache, SyncRevisions, caches, vars
  <2>3. CacheExists'
    BY <2>1, <2>2 DEF HistoryKnown, CacheExists
  <2>4. QED
    BY <2>1, <2>3 DEF HistoryKnown, NextIsRev, RevisionFound, IsRev, Newest
<1>2. CASE RestartManager
  <2>1. pc' = "idle" /\ revCache' = revs /\ UNCHANGED revs
    BY <1>2, RestartEndsReconcile DEF Restart
  <2>2. QED
    BY <2>1, NothingKnown DEF CacheExists, NoClaim
<1>3. CASE Reconcile \/ PatchStatus
  <2>1. pc' \in NoClaim /\ UNCHANGED <<revs, revCache>>
    BY <1>3 DEF Reconcile, PatchStatus, Done, NoClaim, CallFails, server, caches
  <2>2. QED
    BY <2>1, NothingKnown DEF HistoryKnown, CacheExists
<1>4. CASE RunnerSteps
  <2>1. /\ UNCHANGED <<revs, revCache, rev, before>> /\ st'.next = st.next
        /\ pc \in {"find", "examine", "createRunner", "deleteRunner"}
        /\ pc' \in {"examine", "createRunner", "deleteRunner", "finish", "patch"}
    BY <1>4, RunnerStepsSpare
  <2>2. CacheExists' /\ NextIsRev'
    BY <2>1 DEF HistoryKnown, CacheExists, NextIsRev, AfterFind
  <2>3. RevisionFound'
    BY <2>1 DEF HistoryKnown, RevisionFound, HasRevision, Settling, AfterFind, IsRev, Newest
  <2>4. QED
    BY <2>2, <2>3
<1>5. QED
  BY <1>1, <1>2, <1>3, <1>4, MakeHistoryKnown, BumpKnown, CreateKnown, FinishKnown,
     TruncateKnown, StepKinds DEF MidStep, RunnerSteps

-----------------------------------------------------------------------------
(* What a reconcile knows while nothing disturbs it.                       *)

\* RunnerSet s has what its spec asks for, and the revision of its template
\* is the newest where MakeHistory lists all of them
AtRest(s) == Settled(s) /\ \E r \in NextRevisions(s) : Orderly => Newest(r)

\* the Runners of the set that findRunners keeps, knowing everything
Keepable == {n \in Owned : runners[n].match /\ ~MustGo(runners[n])}

KeptTrue == kept = [n \in Keepable |-> runners[n]]

\* the RunnerSet as the deferred patch means to leave it
Written == [before EXCEPT !.status = st]

\* who disturbs a reconcile queues the next one
AsRead == pc # "idle" /\ ~queued => before = setCache

\* the cache has a RunnerSet to reconcile, with the status last written
StatusRead == /\ set.alive /\ setCache.alive /\ ~setCache.deleting
              /\ setCache.status = set.status

\* examine and finish: the Runners listed are those there are.
\* deleteRunner: there is a Runner to delete.  The end: what is to be written
\* is right.  idle: what was written is right, and has been read.
Knows ==
    /\ pc = "examine"
          => KeptTrue /\ \A n \in DOMAIN todo : todo[n].owner = "us" <=> n \in Owned
    /\ pc = "deleteRunner" => victims \subseteq Owned
    /\ pc = "finish"
          => /\ KeptTrue /\ Cardinality(DOMAIN kept) = before.spec.runners
             /\ st.runners = Cardinality(DOMAIN kept)
             /\ st.idle = InPhase(kept, "Idle") /\ st.active = InPhase(kept, "Active")
    /\ pc = "truncate" \/ (pc = "patch" /\ ~requeue) => AtRest(Written)
    /\ pc = "idle" /\ StatusRead => AtRest(setCache)

RestInv == CacheKnowsOurs /\ AsRead /\ HistoryKnown /\ (Undisturbed => Knows)

\* A RunnerSet at rest stays so while its Runners do and its revision exists.
LEMMA RestKept ==
    ASSUME OursSame, NEW s, Settled(s), \E r \in NextRevisions(s)' : Orderly => Newest(r)'
    PROVE  AtRest(s)'
<1>1. Owned' = Owned /\ \A n \in Owned : runners'[n] = runners[n]
  BY SameOwned
<1>2. Counted(s)' = Counted(s)
  BY <1>1 DEF Counted
<1>3. Counted(s) \subseteq Owned
  BY DEF Counted
<1>4. ASSUME NEW p
      PROVE  {n \in Counted(s)' : runners'[n].phase = p} = {n \in Counted(s) : runners[n].phase = p}
  BY <1>1, <1>2, <1>3
<1>5. Settled(s)'
  BY <1>1, <1>2, <1>3, <1>4 DEF Settled
<1>6. QED
  BY <1>5 DEF AtRest

\* It does where no revision is written at all.
LEMMA RestSame ==
    ASSUME OursSame, UNCHANGED revs, NEW s, AtRest(s) PROVE AtRest(s)'
<1>1. \E r \in NextRevisions(s)' : Orderly => Newest(r)'
  BY DEF AtRest, NextRevisions, Newest
<1>2. QED
  BY <1>1, RestKept DEF AtRest

\* What is to be written has the spec that was read and the status in memory.
LEMMA WrittenType ==
    ASSUME SetInv, pc # "idle"
    PROVE  /\ before \in SetObject /\ before.spec.runners \in Nat
           /\ before.status \in SetStatus /\ st \in SetStatus
           /\ Written.spec = before.spec /\ Written.status = st
           /\ (st = before.status => Written = before)
<1>1. before \in SetObject /\ before.spec \in StoredSpec
  BY PresentSet DEF SetInv, WorkerTyped
<1>2. before.spec.runners \in Nat /\ before.status \in SetStatus /\ st \in SetStatus
  BY <1>1 DEF StoredSpec, Spec1alpha2, SetObject, SetInv, WorkerTyped
<1>3. /\ Written.spec = before.spec /\ Written.status = st
      /\ (st = before.status => Written = before)
  BY <1>1 DEF Written, SetObject
<1>4. QED
  BY <1>1, <1>2, <1>3

\* Finish leaves a status in memory that is right.
LEMMA FinishRest ==
    ASSUME SetInv, HistoryKnown, Knows, Finish PROVE AtRest(Written)'
<1>1. /\ pc = "finish" /\ UNCHANGED <<runners, revs, rev, before, kept>>
      /\ st' = [st EXCEPT !.current = CurrentRevision]
  BY DEF Finish, server
<1>2. /\ KeptTrue /\ Cardinality(DOMAIN kept) = before.spec.runners
      /\ st.runners = Cardinality(DOMAIN kept)
      /\ st.idle = InPhase(kept, "Idle") /\ st.active = InPhase(kept, "Active")
  BY <1>1 DEF Knows
<1>3. st.next = rev.name /\ rev.data = before.spec.template
  BY <1>1 DEF HistoryKnown, NextIsRev, RevisionFound, HasRevision, AfterFind
<1>4. before \in SetObject /\ st \in SetStatus
  BY <1>1, WrittenType
<1>5. PICK s : s = [before EXCEPT !.status = st']
  OBVIOUS
<1>6. s.spec = before.spec /\ s.status = st'
  BY <1>4, <1>5 DEF SetObject
<1>7. /\ st'.runners = st.runners /\ st'.idle = st.idle /\ st'.active = st.active
      /\ st'.next = rev.name /\ st'.current = CurrentRevision
  BY <1>1, <1>3, <1>4 DEF SetStatus
<1>8. Counted(s) = Keepable /\ DOMAIN kept = Keepable /\ \A n \in Keepable : kept[n] = runners[n]
  BY <1>2, <1>6, <1>7 DEF Counted, Keepable, MustGo, KeptTrue
<1>9. ASSUME NEW p
      PROVE  {n \in Counted(s) : runners[n].phase = p} = {n \in DOMAIN kept : kept[n].phase = p}
  BY <1>8
<1>10. ASSUME \A n \in Counted(s) : runners[n].rev = rev.name PROVE CurrentRevision = rev.name
  <2>1. {n \in DOMAIN kept : kept[n].rev = rev.name} = DOMAIN kept
    BY <1>8, <1>10
  <2>2. QED
    BY <1>2, <2>1 DEF CurrentRevision
<1>11. \E r \in NextRevisions(s) : Orderly => Newest(r)
  <2>1. \E r \in revs : IsRev(r) /\ (Orderly => Newest(r))
    BY <1>1 DEF HistoryKnown, RevisionFound, Settling, AfterFind
  <2>2. QED
    BY <1>3, <1>6, <1>7, <2>1 DEF NextRevisions, IsRev
<1>12. Settled(s)
  BY <1>2, <1>6, <1>7, <1>8, <1>9, <1>10, <1>11 DEF Settled, InPhase
<1>13. AtRest(s)'
  BY <1>1, <1>11, <1>12, RestSame DEF AtRest, OursSame
<1>14. QED
  BY <1>1, <1>5, <1>13 DEF Written

\* TruncateHistory leaves it right.
LEMMA TruncateRest ==
    ASSUME SetInv, HistoryKnown, NEW name \in drop, TruncateHistory(name), OursSame,
           AtRest(Written)
    PROVE  AtRest(Written)'
<1>1. /\ pc = "truncate" /\ UNCHANGED <<rev, before, st>>
      /\ revs' \subseteq revs /\ \A r \in revs \ revs' : r.name \in drop
  BY TruncateEffect
<1>2. /\ rev.name \notin drop /\ rev.data = before.spec.template /\ st.next = rev.name
      /\ \E r \in revs : IsRev(r) /\ (Orderly => Newest(r))
  BY <1>1 DEF HistoryKnown, RevisionFound, NextIsRev, HasRevision, Settling, AfterFind
<1>3. PICK s : s = Written
  OBVIOUS
<1>4. s.spec = before.spec /\ s.status = st /\ s = Written'
  BY <1>1, <1>3, WrittenType DEF Written
<1>5. \E r \in NextRevisions(s)' : Orderly => Newest(r)'
  BY <1>1, <1>2, <1>4 DEF NextRevisions, Newest, IsRev
<1>6. AtRest(s)'
  BY <1>3, <1>5, RestKept DEF AtRest
<1>7. QED
  BY <1>4, <1>6

\* findRunners lists the Runners there are, for the cache is right about them.
LEMMA FindKnows ==
    ASSUME SetInv, CacheKnowsOurs, Undisturbed, FindRunners PROVE Knows'
<1>1. /\ pc' = "examine" /\ UNCHANGED <<runners, before, rev>>
      /\ ~owed /\ runnerCache \in [Names -> RunnerCopy]
  BY DEF FindRunners, Goto, server, Undisturbed, SetInv, CachesTyped
<1> DEFINE found == {n \in Names : /\ runnerCache[n].exists /\ runnerCache[n].match
                                  /\ runnerCache[n].owner # "other"}
           plain == {n \in found : runnerCache[n].owner = "us" /\ ~MustGo(runnerCache[n])}
<1>2. kept' = [n \in plain |-> runnerCache[n]] /\ todo' = [n \in found \ plain |-> runnerCache[n]]
  BY DEF FindRunners
<1>3. \A n \in Names : \/ runnerCache[n] = runners[n]
                       \/ "us" \notin {runnerCache[n].owner, runners[n].owner}
  BY <1>1 DEF CacheKnowsOurs
<1>4. plain = Keepable /\ \A n \in plain : runnerCache[n] = runners[n]
  BY <1>3 DEF Keepable, Owned
<1>5. Keepable' = Keepable
  BY <1>1 DEF Keepable, Owned, MustGo
<1>6. KeptTrue'
  <2> HIDE DEF plain, found
  <2> QED BY <1>1, <1>2, <1>4, <1>5 DEF KeptTrue
<1>7. \A n \in found : runnerCache[n].owner = "us" <=> n \in Owned
  BY <1>3 DEF Owned
<1>8. \A n \in DOMAIN todo' : todo'[n].owner = "us" <=> n \in Owned'
  <2>1. DOMAIN todo' \subseteq found /\ \A n \in DOMAIN todo' : todo'[n] = runnerCache[n]
    BY <1>2
  <2>2. Owned' = Owned
    BY <1>1 DEF Owned
  <2> HIDE DEF plain, found
  <2>3. QED
    BY <1>7, <2>1, <2>2
<1>9. QED
  BY <1>1, <1>6, <1>8 DEF Knows

\* What is kept stays true while the Runners of the set are the same.
LEMMA KeptSame ==
    ASSUME OursSame, KeptTrue, UNCHANGED <<kept, before, rev>> PROVE KeptTrue'
<1>1. Owned' = Owned /\ \A n \in Owned : runners'[n] = runners[n]
  BY SameOwned
<1>2. Keepable' = Keepable /\ \A n \in Keepable : runners'[n] = runners[n]
  BY <1>1 DEF Keepable, MustGo
<1>3. QED
  BY <1>2 DEF KeptTrue

\* An adoption that succeeds is noticed.
LEMMA AdoptKnows ==
    ASSUME SetInv, Undisturbed, Knows, Undisturbed', OursSame, NEW n \in Names, AdoptRunner(n)
    PROVE  Knows'
<1>1. /\ pc = "examine" /\ UNCHANGED <<pc, before, rev>> /\ n \in DOMAIN todo
      /\ todo[n].owner = "none" /\ n \notin Owned /\ runners \in [Names -> RunnerCopy]
  BY DEF AdoptRunner, Knows, SetInv, ServerTyped
<1>2. CASE runners[n].exists /\ WriteRunner(n, [runners[n] EXCEPT !.owner = "us"])
  <2>1. runners[n].owner # "us"
    BY <1>1, <1>2 DEF Owned
  <2>2. PICK r : r = [runners[n] EXCEPT !.owner = "us"]
    OBVIOUS
  <2>3. r.owner = "us"
    BY <1>1, <2>2 DEF RunnerCopy
  <2>4. owed'
    BY <1>2, <2>1, <2>2, <2>3 DEF WriteRunner
  <2>5. QED
    BY <2>4 DEF Undisturbed
<1>3. CASE todo' = Without(todo, n) /\ UNCHANGED kept
  <2>1. KeptTrue'
    BY <1>1, <1>3, KeptSame DEF Knows
  <2>2. \A m \in DOMAIN todo' : m \in DOMAIN todo /\ todo'[m] = todo[m]
    BY <1>3 DEF Without
  <2>3. QED
    BY <1>1, <2>1, <2>2, SameOwned DEF Knows
<1>4. QED
  BY <1>2, <1>3 DEF AdoptRunner

\* So is a deletion; one that fails is of a Runner that does not count.
LEMMA DiscardKnows ==
    ASSUME SetInv, Undisturbed, Knows, Undisturbed', OursSame, NEW n \in Names, DiscardRunner(n)
    PROVE  Knows'
<1>1. /\ pc = "examine" /\ UNCHANGED <<pc, before, rev, kept>> /\ todo' = Without(todo, n)
  BY DEF DiscardRunner
<1>2. KeptTrue'
  BY <1>1, KeptSame DEF Knows
<1>3. \A m \in DOMAIN todo' : m \in DOMAIN todo /\ todo'[m] = todo[m]
  BY <1>1 DEF Without
<1>4. QED
  BY <1>1, <1>2, <1>3, SameOwned DEF Knows

\* syncRunners decides on what there is.
LEMMA SyncKnows ==
    ASSUME SetInv, Knows, OursSame, SyncRunners PROVE Knows'
<1>1. /\ pc = "examine" /\ UNCHANGED <<before, rev, kept>> /\ st' = CountedStatus
      /\ pc' \in {"createRunner", "deleteRunner", "finish"}
  BY DEF SyncRunners, Goto
<1>2. KeptTrue /\ KeptTrue'
  BY <1>1, KeptSame DEF Knows
<1>3. CASE pc' = "createRunner"
  BY <1>3 DEF Knows
<1>4. CASE pc' = "deleteRunner"
  <2>1. victims' \subseteq DOMAIN kept
    BY <1>4 DEF SyncRunners, Goto, ToDelete
  <2>2. DOMAIN kept \subseteq Owned
    BY <1>2 DEF KeptTrue, Keepable
  <2>3. QED
    BY <1>4, <2>1, <2>2, SameOwned DEF Knows
<1>5. CASE pc' = "finish"
  <2>1. Cardinality(DOMAIN kept) = before.spec.runners
    BY <1>5 DEF SyncRunners, Goto
  <2>2. /\ st'.runners = Cardinality(DOMAIN kept)
        /\ st'.idle = InPhase(kept, "Idle") /\ st'.active = InPhase(kept, "Active")
    BY <1>1 DEF CountedStatus, SetInv, WorkerTyped, SetStatus
  <2>3. QED
    BY <1>1, <1>2, <1>5, <2>1, <2>2 DEF Knows, InPhase
<1>6. QED
  BY <1>1, <1>3, <1>4, <1>5

\* A Runner made is noticed, one refused is tried again.
LEMMA CreateKnows ==
    ASSUME SetInv, Undisturbed', CreateRunner PROVE Knows'
<1>1. pc = "createRunner" /\ pc' \in {"createRunner", "patch", "finish"} /\ ~owed'
  BY DEF CreateRunner, LoopTo, Undisturbed
<1>2. ASSUME NEW n \in FreshNames, WriteRunner(n, NewRunner) PROVE FALSE
  <2>1. ~runners[n].exists /\ NewRunner.exists /\ NewRunner.owner = "us"
    BY <1>2 DEF FreshNames, NewRunner
  <2>2. QED
    BY <1>1, <1>2, <2>1 DEF WriteRunner
<1>3. LoopTo("finish", left = 1, TRUE)
  BY <1>2 DEF CreateRunner
<1>4. requeue' /\ pc' # "finish"
  BY <1>1, <1>3 DEF LoopTo
<1>5. QED
  BY <1>1, <1>4 DEF Knows

\* A Runner deleted is noticed, and a call that fails is made again.
LEMMA DeleteKnows ==
    ASSUME SetInv, Undisturbed, Knows, Undisturbed', OursSame, NEW n \in Names, DeleteRunner(n)
    PROVE  Knows'
<1>1. /\ pc = "deleteRunner" /\ pc' \in {"deleteRunner", "patch", "finish"}
      /\ n \in victims /\ victims' \subseteq victims
  BY DEF DeleteRunner, LoopTo
<1>2. n \in Owned /\ victims' \subseteq Owned'
  BY <1>1, SameOwned DEF Knows
<1>3. ~Deleted(n)
  BY <1>2, DeletedNoticed DEF Undisturbed
<1>4. LoopTo("finish", victims = {n}, TRUE)
  BY <1>3 DEF DeleteRunner
<1>5. requeue' /\ pc' # "finish"
  BY <1>1, <1>4 DEF LoopTo
<1>6. QED
  BY <1>1, <1>2, <1>5 DEF Knows

\* A step of anyone else that disturbs nothing leaves all that as it is.
LEMMA OthersKnow ==
    ASSUME SetInv, Undisturbed, Knows, Undisturbed', OursSame, Others \/ UNCHANGED vars
    PROVE  Knows'
<1>1. UNCHANGED <<pc, before, st, rev, todo, kept, victims, requeue, revs>>
  BY OthersSpareWorker, QuietHistory DEF worker, vars, QuietStep
<1>2. UNCHANGED setCache
  BY DEF Others, Users, EditSet, EditSpec, DeleteSet, RemoveRunner, CreateOrphan,
     OtherAdopts, Runners, ReportPhase, RunnerGone, CollectRunner, CollectSet, Informers,
     SyncSet, SyncRunnerCache, SyncRevisions, caches, vars, Undisturbed
<1>3. set'.alive => set.alive /\ set'.status = set.status
  BY OthersSpareStatus DEF vars
<1>4. pc = "examine" \/ pc = "finish" => KeptTrue'
  BY <1>1, KeptSame DEF Knows
<1>5. Owned' = Owned
  BY SameOwned
<1>6. pc = "truncate" \/ (pc = "patch" /\ ~requeue) => AtRest(Written)'
  <2> SUFFICES ASSUME AtRest(Written) PROVE AtRest(Written)'
    BY DEF Knows
  <2>1. PICK s : s = Written
    OBVIOUS
  <2>2. s = Written' /\ AtRest(s)'
    BY <1>1, <2>1, RestSame DEF Written
  <2>3. QED
    BY <2>2
<1>7. pc = "idle" /\ StatusRead' => AtRest(setCache)'
  BY <1>1, <1>2, <1>3, RestSame DEF Knows, StatusRead
<1>8. QED
  BY <1>1, <1>4, <1>5, <1>6, <1>7 DEF Knows, InPhase

\* So does a step of the reconcile.
LEMMA MidKnows ==
    ASSUME SetInv, CacheKnowsOurs, HistoryKnown, Undisturbed, Knows, Undisturbed', OursSame,
           MidStep
    PROVE  Knows'
<1>1. CASE MakeHistory \/ BumpRevision \/ CreateRevision
  <2>1. \/ pc' \in {"bump", "create", "find", "panic"}
        \/ pc' = "patch" /\ requeue'
    BY <1>1 DEF MakeHistory, BumpRevision, CreateRevision, Settle, Goto, ReturnError
  <2>2. QED
    BY <2>1 DEF Knows
<1>2. CASE Finish
  <2>1. pc' \in {"truncate", "patch"} /\ AtRest(Written)'
    BY <1>2, FinishRest DEF Finish, Goto
  <2>2. QED
    BY <2>1 DEF Knows
<1>3. ASSUME NEW name \in drop, TruncateHistory(name) PROVE Knows'
  <2>1. pc = "truncate" /\ pc' \in {"truncate", "patch"}
    BY <1>3, TruncateEffect
  <2>2. AtRest(Written)'
    BY <1>3, <2>1, TruncateRest DEF Knows
  <2>3. QED
    BY <2>1, <2>2 DEF Knows
<1>4. QED
  BY <1>1, <1>2, <1>3, FindKnows, SyncKnows, CreateKnows, AdoptKnows, DiscardKnows, DeleteKnows
  DEF MidStep

\* A status write shows in the cached copy as a difference, until the informer
\* has brought the new one and with it the next reconcile: only a reconcile
\* that writes nothing ends at rest.
LEMMA PatchKnows ==
    ASSUME SetInv, AsRead, Undisturbed => Knows, Undisturbed', PatchStatus
    PROVE  Knows'
<1>1. pc = "patch" /\ pc' = "idle" /\ UNCHANGED <<runners, owed, revs, setCache>>
  BY DEF PatchStatus, Done, CallFails, server, caches
<1>2. ~queued' /\ Owned' = Owned
  BY <1>1 DEF Undisturbed, Owned
<1>3. ~queued /\ before = setCache
  <2>1. ~queued
    BY <1>2 DEF PatchStatus, Done
  <2>2. QED
    BY <1>1, <2>1 DEF AsRead
<1>4. Knows
  BY <1>1, <1>2, <1>3 DEF Undisturbed
<1>5. /\ before.status \in SetStatus /\ st \in SetStatus
      /\ (st = before.status => Written = before)
  BY <1>1, WrittenType
<1>6. CASE st = before.status /\ Done(requeue)
  <2>1. ~requeue
    BY <1>2, <1>6 DEF Done
  <2>2. AtRest(setCache)
    <3>1. PICK s : s = setCache
      OBVIOUS
    <3>2. AtRest(s)
      BY <1>1, <1>3, <1>4, <1>5, <1>6, <2>1, <3>1 DEF Knows
    <3>3. QED
      BY <3>1, <3>2
  <2>3. AtRest(setCache)'
    BY <1>1, <2>2, RestSame DEF OursSame
  <2>4. QED
    BY <1>1, <2>3 DEF Knows
<1>7. CASE st # before.status /\ set.alive /\ set' = [set EXCEPT !.status = MergedStatus]
  <2>1. set'.status = MergedStatus
    BY <1>7, StoredSetType DEF SetInv, ServerTyped, SetObject
  <2>2. PICK f \in DOMAIN st : st[f] # before.status[f]
    BY <1>5, <1>7 DEF SetStatus
  <2>3. MergedStatus[f] = st[f]
    BY <2>2 DEF MergedStatus, MergeField
  <2>4. ~StatusRead'
    BY <1>1, <1>3, <2>1, <2>2, <2>3 DEF StatusRead
  <2>5. QED
    BY <1>1, <2>4 DEF Knows
<1>8. CASE Done(TRUE)
  BY <1>2, <1>8 DEF Done
<1>9. QED
  BY <1>6, <1>7, <1>8 DEF PatchStatus

\* Every step keeps the invariant.
LEMMA RestStep ==
    ASSUME ListedRevisionsExist PROVE SetInv /\ RestInv /\ [Next]_vars => RestInv'
<1> SUFFICES ASSUME SetInv, RestInv, [Next]_vars PROVE RestInv'
  OBVIOUS
<1>1. CacheKnowsOurs' /\ HistoryKnown'
  BY CacheStep, HistoryKnownStep DEF RestInv
<1>2. CASE Others \/ UNCHANGED vars
  <2>1. AsRead'
    <3>1. UNCHANGED <<pc, before>>
      BY <1>2, OthersSpareWorker DEF worker, vars
    <3>2. (UNCHANGED setCache /\ (queued => queued')) \/ queued'
      BY <1>2 DEF Others, Users, EditSet, EditSpec, DeleteSet, RemoveRunner, CreateOrphan,
         OtherAdopts, Runners, ReportPhase, RunnerGone, CollectRunner, CollectSet, Informers,
         SyncSet, SyncRunnerCache, SyncRevisions, caches, vars
    <3>3. QED
      BY <3>1, <3>2 DEF RestInv, AsRead
  <2>2. ASSUME Undisturbed' PROVE Knows'
    BY <1>2, <2>2, StillUndisturbed, OthersKnow DEF RestInv
  <2>3. QED
    BY <1>1, <2>1, <2>2 DEF RestInv
<1>3. CASE MidStep
  <2>1. AsRead'
    BY <1>3, MidSparesSet, MidWrite DEF RestInv, AsRead
  <2>2. ASSUME Undisturbed' PROVE Knows'
    BY <1>3, <2>2, StillUndisturbed, MidKnows DEF RestInv
  <2>3. QED
    BY <1>1, <2>1, <2>2 DEF RestInv
<1>4. CASE PatchStatus
  <2>1. AsRead'
    BY <1>4 DEF PatchStatus, Done, AsRead
  <2>2. QED
    BY <1>1, <1>4, <2>1, PatchKnows DEF RestInv
<1>5. CASE Reconcile
  <2>1. UNCHANGED <<set, setCache>> /\ pc = "idle" /\ queued
    BY <1>5 DEF Reconcile, server, caches
  <2>2. CASE pc' = "idle" /\ (~setCache.alive \/ setCache.deleting)
    BY <1>1, <2>1, <2>2 DEF RestInv, AsRead, Knows, StatusRead
  <2>3. CASE pc' = "history" /\ before' = setCache
    BY <1>1, <2>1, <2>3 DEF RestInv, AsRead, Knows
  <2>4. QED
    BY <1>5, <2>1, <2>2, <2>3 DEF Reconcile
<1>6. CASE RestartManager
  <2>1. pc' = "idle" /\ UNCHANGED set /\ (queued' \/ ~set.alive)
    BY <1>6, RestartEndsReconcile DEF Restart, Done
  <2>2. Undisturbed' => Knows'
    BY <2>1 DEF Undisturbed, Knows, StatusRead
  <2>3. QED
    BY <1>1, <2>1, <2>2 DEF RestInv, AsRead
<1>7. QED
  BY <1>2, <1>3, <1>4, <1>5, <1>6, StepKinds

\* A set that has just been created has not been read: nothing is claimed.
LEMMA RestInit == Init => RestInv
<1> SUFFICES ASSUME Init PROVE RestInv
  OBVIOUS
<1>1. pc = "idle" /\ revCache = {} /\ ~setCache.alive /\ runnerCache = runners
  BY EmptyTypes DEF Init
<1>2. CacheKnowsOurs /\ AsRead /\ CacheExists
  BY <1>1 DEF CacheKnowsOurs, AsRead, CacheExists
<1>3. NextIsRev /\ RevisionFound
  BY <1>1 DEF NextIsRev, RevisionFound, HasRevision, Settling, AfterFind
<1>4. Knows
  BY <1>1 DEF Knows, StatusRead
<1>5. QED
  BY <1>2, <1>3, <1>4, HistoryInit DEF RestInv, HistoryKnown

\* Where nothing is under way, the cached RunnerSet is the RunnerSet, and the
\* last reconcile left it at rest.
LEMMA RestAtQuiescence ==
    ASSUME SetInv, RestInv, Quiescent, set.alive, ~set.deleting PROVE AtRest(set)
<1>1. Undisturbed /\ pc = "idle" /\ setCache = set
  BY DEF Quiescent, Undisturbed, Owned
<1>2. AtRest(setCache)
  BY <1>1 DEF RestInv, Knows, StatusRead
<1>3. QED
  BY <1>1, <1>2

\* A reconcile that nothing disturbs knows the truth at each of its steps, and
\* one that is disturbed is followed by another (runnerset_controller.go:69).
THEOREM RestInvariant ==
    ASSUME ListedRevisionsExist PROVE Spec => [](SetInv /\ RestInv)
<1>1. Init => SetInv /\ RestInv
  BY InitSetInv, RestInit
<1>2. SetInv /\ RestInv /\ [Next]_vars => (SetInv /\ RestInv)'
  BY SetInvStep, RestStep
<1>3. QED
  BY <1>1, <1>2, PTL DEF Spec

\* For any number of Runners, templates and failures, with caches behind by
\* any amount, calls that fail and a manager that crashes anywhere: whenever
\* the controller has nothing left to do, the set has the Runners it asks for
\* and a status that says so.  It only takes that a revision in the cache still
\* exists, as under the role of config/rbac, which may not delete revisions.
\* In particular the retry that writes nothing after a conflict
\* (revision.go:89) leaves a revision of the template all the same.
THEOREM SetRightAtRest ==
    ASSUME ListedRevisionsExist PROVE Spec => []QuiescentSet
<1>1. SetInv /\ RestInv => QuiescentSet
  BY RestAtQuiescence DEF QuiescentSet, AtRest
<1>2. QED
  BY <1>1, RestInvariant, PTL

\* For any sequence of templates, and although calls fail and the manager
\* crashes between listing and writing: while caches keep up and templates
\* match the selector, the set at rest names the revision of its template,
\* and none has a higher number, so that a rollback shows as the newest
\* revision (revision.go:86).
THEOREM RolledBackRevisionNewest ==
    ASSUME CachesKeepUp, TemplatesMatch PROVE Spec => []RollbackIsNewest
<1>1. SetInv /\ RestInv => RollbackIsNewest
  BY RestAtQuiescence DEF RollbackIsNewest, AtRest, Orderly, Newest
<1>2. ListedRevisionsExist
  BY DEF ListedRevisionsExist
<1>3. QED
  BY <1>1, <1>2, RestInvariant, PTL

=============================================================================
