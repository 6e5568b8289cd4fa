----------------------- MODULE RunnerSetHistoryProofs -----------------------
(***************************************************************************)
(* What MakeHistory, TruncateHistory and the deferred patch leave behind:  *)
(* one revision for one template, a status that names a revision that      *)
(* exists, and counters that belong together.                              *)
(***************************************************************************)
EXTENDS RunnerSetScalingProofs

-----------------------------------------------------------------------------
(* One template, one revision.                                             *)

\* the revisions were made from templates of the set
RevsStored == \A r \in revs : r.data \in StoredTemplates

\* between listing the revisions and writing one, the list is true: nobody
\* else writes revisions
ListIsTrue ==
    /\ pc \in {"bump", "create"} => listed = revs
    /\ pc = "create" => rev.data \in StoredTemplates /\ \A r \in revs : ~IsEqual(r, rev)
    /\ pc = "bump" => \E r \in revs : r.name = rev.name /\ IsEqual(r, rev)

HistoryInv == RevsStored /\ ListIsTrue /\ UniqueRevisions

\* The steps that neither list nor write revisions.
QuietStep ==
    \/ Others \/ RestartManager \/ UNCHANGED vars
    \/ Reconcile \/ FindRunners \/ SyncRunners \/ CreateRunner \/ Finish \/ PatchStatus
    \/ \E n \in Names : AdoptRunner(n) \/ DiscardRunner(n) \/ DeleteRunner(n)

\* They leave the history alone.
LEMMA QuietHistory ==
    ASSUME QuietStep
    PROVE  /\ UNCHANGED revs
           /\ pc' \in {"bump", "create"} => UNCHANGED <<pc, rev, listed>>
<1>1. CASE Others \/ RestartManager \/ UNCHANGED vars
  <2>1. UNCHANGED revs
    BY <1>1 DEF Others, Users, EditSet, EditSpec, DeleteSet, RemoveRunner, CreateOrphan,
       OtherAdopts, Runners, ReportPhase, RunnerGone, CollectRunner, CollectSet, Informers,
       SyncSet, SyncRunnerCache, SyncRevisions, RestartManager, Restart, server, vars
  <2>2. UNCHANGED <<pc, rev, listed>> \/ pc' = "idle"
    BY <1>1, OthersSpareWorker, RestartEndsReconcile DEF worker, vars
  <2>3. QED
    BY <2>1, <2>2
<1>2. CASE \/ Reconcile \/ FindRunners \/ SyncRunners \/ CreateRunner \/ Finish \/ PatchStatus
           \/ \E n \in Names : AdoptRunner(n) \/ DiscardRunner(n) \/ DeleteRunner(n)
  <2>1. UNCHANGED revs
    BY <1>2 DEF Reconcile, FindRunners, SyncRunners, CreateRunner, Finish, PatchStatus,
       AdoptRunner, DiscardRunner, DeleteRunner, CallFails, server
  <2>2. pc' \notin {"bump", "create"}
    BY <1>2 DEF Reconcile, FindRunners, SyncRunners, CreateRunner, Finish, PatchStatus,
       AdoptRunner, DiscardRunner, DeleteRunner, Goto, LoopTo, Done
  <2>3. QED
    BY <2>1, <2>2
<1>3. QED
  BY <1>1, <1>2 DEF QuietStep

\* While caches keep up and templates match, ListRevision answers the truth.
LEMMA ListsAll ==
    ASSUME CachesKeepUp, TemplatesMatch, RevsStored, Reads(revCache, revs)
    PROVE  ListRevision = revs
<1>1. revCache = revs
  BY ReadsTruth
<1>2. QED
  BY <1>1 DEF ListRevision, RevsStored, TemplatesMatch

\* Where MakeHistory goes, and with which revision.
LEMMA MakeHistoryFinds ==
    ASSUME CachesKeepUp, TemplatesMatch, SetInv, RevsStored, MakeHistory
    PROVE  /\ listed' = revs /\ UNCHANGED <<set, revs, before>>
           /\ \/ rev' \in revs /\ Settle(rev'.name, revs)
              \/ /\ pc' = "bump" /\ UNCHANGED st
                 /\ \E r \in revs : r.name = rev'.name /\ IsEqual(r, rev')
              \/ /\ pc' = "create" /\ UNCHANGED st
                 /\ rev'.data \in StoredTemplates /\ \A r \in revs : ~IsEqual(r, rev')
<1> DEFINE next == NextRevision(before.spec, st.collisions, revs)
           equal == FindEqual(revs, next)
<1>1. ListRevision = revs /\ listed' = revs /\ UNCHANGED <<set, revs, before>>
  BY ListsAll DEF MakeHistory, server
<1>2. Distinguished(revs) /\ equal \in SUBSET revs /\ Distinguished(equal)
  BY ListRevisionType DEF SetInv, ServerTyped, FindEqual
<1>3. equal # {} => Latest(equal) \in equal /\ Latest(revs) \in revs
  BY <1>2, LatestIsLast
<1>4. CASE equal # {} /\ rev' = Latest(revs) /\ Settle(Latest(revs).name, revs)
  BY <1>1, <1>3, <1>4
<1>5. CASE /\ equal # {} /\ rev' = [Latest(equal) EXCEPT !.number = next.number]
           /\ Goto("bump") /\ UNCHANGED st
  <2>1. Latest(equal) \in revs /\ Latest(equal) \in RevisionObject
    BY <1>2, <1>3, <1>5 DEF Distinguished
  <2> HIDE DEF equal, next
  <2>2. rev'.name = Latest(equal).name /\ rev'.data = Latest(equal).data
    BY <1>5, <2>1 DEF RevisionObject
  <2>3. QED
    BY <1>1, <1>5, <2>1, <2>2 DEF IsEqual, Goto
<1>6. CASE equal = {} /\ rev' = next /\ Goto("create") /\ UNCHANGED st
  <2>1. before.spec.template \in StoredTemplates
    BY PresentSet DEF MakeHistory, SetInv, WorkerTyped, StoredSpec
  <2>2. rev'.data = before.spec.template
    BY <1>6 DEF NextRevision, ObjectPatch
  <2>3. \A r \in revs : ~IsEqual(r, rev')
    BY <1>6 DEF FindEqual
  <2>4. QED
    BY <1>1, <1>6, <2>1, <2>2, <2>3 DEF Goto
<1>7. QED
  BY <1>1, <1>4, <1>5, <1>6 DEF MakeHistory

\* What BumpRevision does to the history: the number of a revision changes.
LEMMA BumpEffect ==
    ASSUME SetInv, ListIsTrue, BumpRevision
    PROVE  /\ UNCHANGED <<set, rev, before>>
           /\ \/ /\ Settle(rev.name, revs)
                 /\ revs' = (revs \ {r \in revs : r.name = rev.name}) \cup {rev}
              \/ UNCHANGED <<revs, st>> /\ pc' = "patch" /\ CallFails
<1>1. pc = "bump" /\ UNCHANGED <<set, rev, before>> /\ listed = revs
  BY DEF BumpRevision, ListIsTrue, CallFails, server
<1>2. {r \in revs : r.name = rev.name} # {}
  BY <1>1 DEF ListIsTrue
<1>3. {r \in revs : r.name = rev.name} \subseteq listed
  BY <1>1
<1>4. QED
  BY <1>1, <1>2, <1>3 DEF BumpRevision, CallFails, server, ReturnError

\* What CreateRevision does to the history: it may have one more.
LEMMA CreateEffect ==
    ASSUME SetInv, ListIsTrue, CreateRevision
    PROVE  /\ UNCHANGED <<set, rev, before>>
           /\ \/ /\ Settle(rev.name, revs) /\ rev.name \in NamesOf(revs')
                 /\ revs \subseteq revs'
                 /\ \A r \in revs' \ revs : r.name = rev.name /\ r.data = rev.data
                 /\ \A r, q \in revs' \ revs : r = q
              \/ UNCHANGED <<revs, st, pc, listed>> /\ pc = "create"
              \/ UNCHANGED <<revs, st>> /\ pc' = "patch"
<1>1. /\ pc = "create" /\ UNCHANGED <<set, rev, before, listed>> /\ listed = revs
      /\ rev \in RevisionObject
  BY DEF CreateRevision, ListIsTrue, CallFails, server, SetInv, WorkerTyped, RevisionTyped,
         HasRevision
<1>2. CASE /\ revs' = revs \cup {[rev EXCEPT !.born = Born(revs)]}
           /\ Settle(rev.name, listed)
  <2>1. PICK new : new = [rev EXCEPT !.born = Born(revs)]
    OBVIOUS
  <2>2. new.name = rev.name /\ new.data = rev.data
    BY <1>1, <2>1 DEF RevisionObject
  <2>3. QED
    BY <1>1, <1>2, <2>1, <2>2 DEF NamesOf
<1>3. CASE /\ {r \in revs : r.name = rev.name} # {} /\ UNCHANGED revs
           /\ Settle(rev.name, listed)
  BY <1>1, <1>3 DEF NamesOf
<1>4. CASE UNCHANGED <<revs, st, pc>>
  BY <1>1, <1>4
<1>5. CASE UNCHANGED <<revs, st>> /\ ReturnError
  BY <1>1, <1>5 DEF ReturnError
<1>6. QED
  BY <1>2, <1>3, <1>4, <1>5 DEF CreateRevision, CallFails, server

\* TruncateHistory takes away nothing but what was chosen.
LEMMA TruncateEffect ==
    ASSUME NEW name \in drop, TruncateHistory(name)
    PROVE  /\ pc = "truncate" /\ pc' \in {"truncate", "patch"}
           /\ UNCHANGED <<set, rev, before, st>> /\ drop' \subseteq drop
           /\ revs' \subseteq revs /\ \A r \in revs \ revs' : r.name \in drop
BY DEF TruncateHistory, CallFails, server, Goto, ReturnError

\* Whichever way MakeHistory ends, it has left bump and create.
LEMMA SettleLeaves ==
    ASSUME NEW name, NEW R, Settle(name, R) PROVE pc' \in {"find", "panic"}
BY DEF Settle, Goto

\* Every step keeps one revision for one template.
LEMMA HistoryStep ==
    ASSUME CachesKeepUp, TemplatesMatch
    PROVE  SetInv /\ HistoryInv /\ [Next]_vars => HistoryInv'
<1> SUFFICES ASSUME SetInv, HistoryInv, [Next]_vars PROVE HistoryInv'
  OBVIOUS
<1>1. CASE QuietStep
  BY <1>1, QuietHistory DEF HistoryInv, RevsStored, ListIsTrue, UniqueRevisions
<1>2. CASE MakeHistory
  <2>1. UNCHANGED revs /\ listed' = revs
    BY <1>2, MakeHistoryFinds DEF HistoryInv
  <2>2. ListIsTrue'
    BY <1>2, <2>1, MakeHistoryFinds, SettleLeaves DEF HistoryInv, ListIsTrue
  <2>3. QED
    BY <2>1, <2>2 DEF HistoryInv, RevsStored, UniqueRevisions
<1>3. CASE BumpRevision
  <2>1. pc = "bump" /\ pc' \notin {"bump", "create"}
    BY <1>3, BumpEffect, SettleLeaves DEF HistoryInv, BumpRevision
  <2>2. CASE UNCHANGED revs
    BY <2>1, <2>2 DEF HistoryInv, RevsStored, ListIsTrue, UniqueRevisions
  <2>3. CASE revs' = (revs \ {r \in revs : r.name = rev.name}) \cup {rev}
    <3>1. PICK o \in revs : o.name = rev.name /\ o.data = rev.data
      BY <2>1 DEF HistoryInv, ListIsTrue, IsEqual
    <3>2. UniqueRevisions'
      BY <2>3, <3>1 DEF HistoryInv, UniqueRevisions, IsEqual
    <3>3. RevsStored'
      BY <2>3, <3>1 DEF HistoryInv, RevsStored
    <3>4. QED
      BY <2>1, <3>2, <3>3 DEF HistoryInv, ListIsTrue
  <2>4. QED
    BY <1>3, <2>2, <2>3, BumpEffect DEF HistoryInv
<1>4. CASE CreateRevision
  <2>1. /\ pc = "create" /\ rev.data \in StoredTemplates
        /\ \A r \in revs : r.data # rev.data
    BY <1>4 DEF CreateRevision, HistoryInv, ListIsTrue, IsEqual
  <2>2. CASE UNCHANGED <<revs, pc, rev, listed>>
    BY <2>2 DEF HistoryInv, RevsStored, ListIsTrue, UniqueRevisions
  <2>3. CASE /\ pc' \notin {"bump", "create"} /\ revs \subseteq revs'
             /\ \A r \in revs' \ revs : r.data = rev.data
             /\ \A r, q \in revs' \ revs : r = q
    <3>1. RevsStored'
      BY <2>1, <2>3 DEF HistoryInv, RevsStored
    <3>2. UniqueRevisions'
      BY <2>1, <2>3 DEF HistoryInv, UniqueRevisions, IsEqual
    <3>3. QED
      BY <2>3, <3>1, <3>2 DEF HistoryInv, ListIsTrue
  <2>4. QED
    BY <1>4, <2>2, <2>3, CreateEffect, SettleLeaves DEF HistoryInv
<1>5. ASSUME NEW name \in drop, TruncateHistory(name) PROVE HistoryInv'
  BY <1>5, TruncateEffect DEF HistoryInv, RevsStored, ListIsTrue, UniqueRevisions
<1>6. QED
  BY <1>1, <1>2, <1>3, <1>4, <1>5 DEF Next, ReconcileStep, QuietStep, Others

\* There is no revision at first.
LEMMA HistoryInit == Init => HistoryInv
BY DEF Init, HistoryInv, RevsStored, ListIsTrue, UniqueRevisions

\* For any hash, colliding or not, and any history of templates: while caches
\* keep up and templates match the selector, MakeHistory never makes a second
\* revision of the same data, although calls fail and the manager crashes
\* between listing and writing.
THEOREM OneRevisionPerTemplate ==
    ASSUME CachesKeepUp, TemplatesMatch PROVE Spec => []UniqueRevisions
<1> DEFINE I == SetInv /\ HistoryInv
<1>1. Init => I
  BY InitSetInv, HistoryInit
<1>2. I /\ [Next]_vars => I'
  BY SetInvStep, HistoryStep
<1>3. I => UniqueRevisions
  BY DEF HistoryInv
<1>4. QED
  BY <1>1, <1>2, <1>3, PTL DEF Spec

-----------------------------------------------------------------------------
(* The status belongs to the reconcile that writes it.                     *)

\* nobody but the reconcile in progress writes the status
StatusIsOurs == pc # "idle" /\ set.alive => set.status = before.status

\* What happens to the RunnerSet outside the deferred patch leaves its status.
LEMMA OthersSpareStatus ==
    ASSUME SetInv, Others
    PROVE  set'.alive => set.alive /\ set'.status = set.status
<1>1. CASE EditSet
  <2>1. PICK s \in StoredSpec : EditSpec(s)
    BY <1>1, EditSpecType
  <2>2. set.alive /\ set \in SetObject /\ set' = [set EXCEPT !.spec = s]
    BY <2>1, StoredSetType DEF EditSpec, SetInv, ServerTyped
  <2>3. QED
    BY <2>2 DEF SetObject
<1>2. CASE DeleteSet
  <2>1. set.alive /\ set \in SetObject
    BY <1>2, StoredSetType DEF DeleteSet, SetInv, ServerTyped
  <2>2. QED
    BY <1>2, <2>1, EmptyTypes DEF DeleteSet, SetObject
<1>3. CASE CollectSet
  BY <1>3, EmptyTypes DEF CollectSet
<1>4. CASE \/ \E n \in Names : RemoveRunner(n) \/ CreateOrphan(n) \/ OtherAdopts(n)
           \/ Runners \/ Informers
  BY <1>4 DEF RemoveRunner, CreateOrphan, OtherAdopts, Runners, ReportPhase, RunnerGone,
     CollectRunner, Informers, SyncSet, SyncRunnerCache, SyncRevisions, server
<1>5. QED
  BY <1>1, <1>2, <1>3, <1>4 DEF Others, Users

\* The steps of a reconcile between its first read and the deferred patch.
MidStep ==
    \/ MakeHistory \/ BumpRevision \/ CreateRevision
    \/ FindRunners \/ SyncRunners \/ CreateRunner \/ Finish
    \/ \E n \in Names : AdoptRunner(n) \/ DiscardRunner(n) \/ DeleteRunner(n)
    \/ \E name \in drop : TruncateHistory(name)

\* They leave the RunnerSet alone.
LEMMA MidSparesSet ==
    ASSUME MidStep
    PROVE  UNCHANGED <<set, setCache, before>> /\ pc # "idle" /\ pc' # "idle"
<1>1. UNCHANGED <<set, setCache, before>>
  BY DEF MidStep, MakeHistory, BumpRevision, CreateRevision, FindRunners, SyncRunners,
         CreateRunner, Finish, AdoptRunner, DiscardRunner, DeleteRunner, TruncateHistory,
         caches, server, CallFails
<1>2. pc # "idle" /\ pc' # "idle"
  BY DEF MidStep, MakeHistory, BumpRevision, CreateRevision, FindRunners, SyncRunners,
         CreateRunner, Finish, AdoptRunner, DiscardRunner, DeleteRunner, TruncateHistory,
         Settle, Goto, ReturnError, LoopTo
<1>3. QED
  BY <1>1, <1>2

\* Every step is one of these.
LEMMA StepKinds ==
    ASSUME [Next]_vars
    PROVE  Others \/ RestartManager \/ UNCHANGED vars \/ Reconcile \/ MidStep \/ PatchStatus
BY DEF Next, ReconcileStep, Others, MidStep

\* The status a reconcile started from stays until it writes its own.
LEMMA StatusStep ==
    ASSUME CachesKeepUp
    PROVE  SetInv /\ StatusIsOurs /\ [Next]_vars => StatusIsOurs'
<1> SUFFICES ASSUME SetInv, StatusIsOurs, [Next]_vars PROVE StatusIsOurs'
  OBVIOUS
<1>1. CASE Others
  BY <1>1, OthersSpareStatus, OthersSpareWorker DEF StatusIsOurs, worker
<1>2. CASE UNCHANGED vars
  BY <1>2 DEF vars, StatusIsOurs
<1>3. CASE RestartManager
  BY <1>3, RestartEndsReconcile DEF StatusIsOurs
<1>4. CASE PatchStatus
  BY <1>4 DEF PatchStatus, Done, StatusIsOurs
<1>5. CASE Reconcile
  <2>1. setCache = set /\ UNCHANGED set
    BY <1>5, ReadsTruth DEF Reconcile, server
  <2>2. pc = "idle" /\ (pc' = "idle" \/ before' = setCache)
    BY <1>5 DEF Reconcile
  <2>3. QED
    BY <2>1, <2>2 DEF StatusIsOurs
<1>6. CASE MidStep
  BY <1>6, MidSparesSet DEF StatusIsOurs
<1>7. QED
  BY <1>1, <1>2, <1>3, <1>4, <1>5, <1>6, StepKinds

\* So the merge patch writes the status of one reconcile, and no mixture.
LEMMA PatchWritesOurs ==
    ASSUME SetInv, StatusIsOurs, PatchStatus
    PROVE  /\ pc' = "idle" /\ st' = NewStatus /\ before' = NoSet /\ UNCHANGED <<revs, setCache>>
           /\ \/ UNCHANGED set
              \/ set.alive /\ set' = [set EXCEPT !.status = st]
           /\ set'.alive => set'.status = st \/ CallFails
<1>1. pc = "patch" /\ before.status \in SetStatus /\ st \in SetStatus
  BY PresentSet DEF PatchStatus, SetInv, WorkerTyped
<1>2. /\ pc' = "idle" /\ st' = NewStatus /\ before' = NoSet /\ UNCHANGED <<revs, setCache>>
  BY DEF PatchStatus, Done, caches, server, CallFails
<1>3. set.alive => set.status = before.status
  BY <1>1 DEF StatusIsOurs
<1>4. CASE st = before.status /\ UNCHANGED set
  BY <1>2, <1>3, <1>4
<1>5. CASE set.alive /\ set' = [set EXCEPT !.status = MergedStatus]
  <2>1. MergedStatus = [f \in DOMAIN st |-> st[f]]
    BY <1>3, <1>5 DEF MergedStatus, MergeField
  <2>2. [f \in DOMAIN st |-> st[f]] = st
    BY <1>1 DEF SetStatus
  <2>3. set' = [set EXCEPT !.status = st] /\ set \in SetObject
    BY <1>5, <2>1, <2>2, StoredSetType DEF SetInv, ServerTyped
  <2>4. set'.status = st
    BY <2>3 DEF SetObject
  <2>5. QED
    BY <1>2, <1>5, <2>3, <2>4
<1>6. CASE ~set.alive /\ UNCHANGED set
  BY <1>2, <1>6
<1>7. CASE CallFails
  BY <1>2, <1>7 DEF server, CallFails
<1>8. QED
  BY <1>4, <1>5, <1>6, <1>7 DEF PatchStatus, server

-----------------------------------------------------------------------------
(* The counters of the status.                                             *)

\* no more Runners are Active than there are
Sane(s) == s.active <= s.runners

RatioInv ==
    /\ StatusIsOurs /\ Sane(st)
    /\ \A s \in {set, setCache, before} : s # NoSet => Sane(s.status)

\* Every step keeps the counters together.
LEMMA RatioStep ==
    ASSUME CachesKeepUp
    PROVE  SetInv /\ RatioInv /\ [Next]_vars => RatioInv'
<1> SUFFICES ASSUME SetInv, RatioInv, [Next]_vars PROVE RatioInv'
  OBVIOUS
<1>1. StatusIsOurs'
  BY StatusStep DEF RatioInv
<1>2. Sane(NewStatus)
  BY DEF Sane, NewStatus
<1>4. CASE Others
  <2>1. UNCHANGED <<st, before>> /\ setCache' \in {set, setCache}
    BY <1>4, OthersSpareWorker
    DEF worker, Others, Users, EditSet, EditSpec, DeleteSet, RemoveRunner, CreateOrphan,
        OtherAdopts, Runners, ReportPhase, RunnerGone, CollectRunner, CollectSet, Informers,
        SyncSet, SyncRunnerCache, SyncRevisions, caches
  <2>2. set' # NoSet => set # NoSet /\ set'.status = set.status
    <3>1. CASE EditSet \/ DeleteSet
      <4>1. set.alive /\ set # NoSet /\ set \in SetObject
        BY <3>1, EmptyTypes, StoredSetType
        DEF EditSet, EditSpec, DeleteSet, SetInv, ServerTyped
      <4>2. set' = NoSet \/ (\E x : set' = [set EXCEPT !.spec = x])
                         \/ set' = [set EXCEPT !.deleting = TRUE]
        BY <3>1 DEF EditSet, EditSpec, DeleteSet
      <4>3. QED
        BY <4>1, <4>2 DEF SetObject
    <3>2. CASE CollectSet
      BY <3>2 DEF CollectSet
    <3>3. CASE \/ \E n \in Names : RemoveRunner(n) \/ CreateOrphan(n) \/ OtherAdopts(n)
               \/ Runners \/ Informers
      BY <3>3 DEF RemoveRunner, CreateOrphan, OtherAdopts, Runners, ReportPhase, RunnerGone,
         CollectRunner, Informers, SyncSet, SyncRunnerCache, SyncRevisions, server
    <3>4. QED
      BY <1>4, <3>1, <3>2, <3>3 DEF Others, Users
  <2>3. QED
    BY <1>1, <2>1, <2>2 DEF RatioInv
<1>5. CASE UNCHANGED vars
  BY <1>1, <1>5 DEF vars, RatioInv
<1>6. CASE RestartManager
  <2>1. st' = NewStatus /\ before' = NoSet /\ setCache' = set /\ UNCHANGED set
    BY <1>6, RestartEndsReconcile DEF Restart
  <2>2. QED
    BY <1>1, <1>2, <2>1 DEF RatioInv
<1>7. CASE Reconcile
  <2>1. UNCHANGED <<set, setCache>>
    BY <1>7 DEF Reconcile, server, caches
  <2>2. CASE UNCHANGED <<before, st>>
    BY <1>1, <2>1, <2>2 DEF RatioInv
  <2>3. CASE setCache.alive /\ before' = setCache /\ st' = setCache.status
    <3>1. setCache # NoSet
      BY <2>3, EmptyTypes
    <3>2. QED
      BY <1>1, <2>1, <2>3, <3>1 DEF RatioInv
  <2>4. QED
    BY <1>7, <2>2, <2>3 DEF Reconcile
<1>8. CASE PatchStatus
  <2>1. st' = NewStatus /\ before' = NoSet /\ UNCHANGED setCache
    BY <1>8, PatchWritesOurs DEF RatioInv
  <2>2. UNCHANGED set \/ (set.alive /\ set' = [set EXCEPT !.status = st])
    BY <1>8, PatchWritesOurs DEF RatioInv
  <2>3. set' # NoSet => Sane(set'.status)
    <3>1. CASE UNCHANGED set
      BY <3>1 DEF RatioInv
    <3>2. CASE set.alive /\ set' = [set EXCEPT !.status = st]
      <4>1. set \in SetObject
        BY <3>2, StoredSetType DEF SetInv, ServerTyped
      <4>2. set'.status = st
        BY <3>2, <4>1 DEF SetObject
      <4>3. QED
        BY <4>2 DEF RatioInv
    <3>3. QED
      BY <2>2, <3>1, <3>2
  <2>4. QED
    BY <1>1, <1>2, <2>1, <2>3 DEF RatioInv
<1>9. CASE MidStep
  <2>1. UNCHANGED <<set, setCache, before>>
    BY <1>9, MidSparesSet
  <2>2. st \in SetStatus
    BY DEF SetInv, WorkerTyped
  <2>3. Sane(st')
    <3>1. CASE SyncRunners
      <4>1. kept \in Listed
        BY DEF SetInv, WorkerTyped
      <4>2. InPhase(kept, "Active") <= Cardinality(DOMAIN kept)
        BY <4>1, InPhaseType
      <4>3. st'.active = InPhase(kept, "Active") /\ st'.runners = Cardinality(DOMAIN kept)
        BY <2>2, <3>1 DEF SyncRunners, CountedStatus, SetStatus
      <4>4. QED
        BY <4>2, <4>3 DEF Sane
    <3>2. CASE MakeHistory \/ BumpRevision \/ CreateRevision \/ Finish
      <4>1. st'.active = st.active /\ st'.runners = st.runners
        BY <2>2, <3>2 DEF MakeHistory, BumpRevision, CreateRevision, Finish, Settle, SetStatus
      <4>2. QED
        BY <4>1 DEF Sane, RatioInv
    <3>3. CASE \/ FindRunners \/ CreateRunner
               \/ \E n \in Names : AdoptRunner(n) \/ DiscardRunner(n) \/ DeleteRunner(n)
               \/ \E name \in drop : TruncateHistory(name)
      <4>1. UNCHANGED st
        BY <3>3 DEF FindRunners, CreateRunner, AdoptRunner, DiscardRunner, DeleteRunner,
                    TruncateHistory
      <4>2. QED
        BY <4>1 DEF RatioInv
    <3>4. QED
      BY <1>9, <3>1, <3>2, <3>3 DEF MidStep
  <2>4. QED
    BY <1>1, <2>1, <2>3 DEF RatioInv
<1>10. QED
  BY <1>4, <1>5, <1>6, <1>7, <1>8, <1>9, StepKinds

\* A part of a whole is between 0 and 100 hundredths of it.
LEMMA RatioBounds ==
    ASSUME NEW a \in Nat, NEW r \in Nat, r > 0, a <= r PROVE ActiveRatio(a, r) \in 0..100
<1> DEFINE q == (100 * a) \div r
<1>1. q \in Int /\ r * q <= 100 * a /\ 100 * a < r * (q + 1)
  OBVIOUS
<1>2. 100 * a <= 100 * r
  OBVIOUS
<1> HIDE DEF q
<1>3. q <= 100
  <2>1. SUFFICES ASSUME q >= 101 PROVE FALSE
    BY <1>1
  <2>2. r * q >= r * 101
    BY <1>1, <2>1
  <2>3. QED
    BY <1>1, <1>2, <2>2
<1>4. q >= 0
  <2>1. SUFFICES ASSUME q + 1 <= 0 PROVE FALSE
    BY <1>1
  <2>2. r * (q + 1) <= 0
    BY <1>1, <2>1
  <2>3. QED
    BY <1>1, <2>2
<1>5. QED
  BY <1>1, <1>3, <1>4 DEF ActiveRatio, q

\* For any number of Runners, and although calls fail and the manager
\* crashes: while caches keep up, a scrape at any moment finds a ratio of
\* active Runners between 0 and 1, because the Patcher's merge patch writes the
\* counters of one reconcile (runnerset_metric.go:143).
THEOREM ScrapedRatioSane ==
    ASSUME CachesKeepUp PROVE Spec => []RatioSane
<1> DEFINE I == SetInv /\ RatioInv
<1>1. Init => I
  <2> SUFFICES ASSUME Init PROVE RatioInv
    BY InitSetInv
  <2>1. Sane(NewStatus)
    BY DEF Sane, NewStatus
  <2>2. set.status = NewStatus
    BY DEF Init, NewSet
  <2>3. QED
    BY <2>1, <2>2 DEF Init, RatioInv, StatusIsOurs
<1>2. I /\ [Next]_vars => I'
  BY SetInvStep, RatioStep
<1>3. I => RatioSane
  <2> SUFFICES ASSUME I, NEW g \in Scrape({setCache}), g.status_runners > 0
               PROVE  g.runner_active_ratio \in 0..100
    BY DEF RatioSane
  <2>1. setCache.alive /\ g = RunnerSetGauges(setCache)
    BY DEF Scrape
  <2>2. setCache.status \in SetStatus /\ setCache # NoSet
    BY <2>1, StoredSetType, EmptyTypes DEF SetInv, CachesTyped
  <2>3. /\ setCache.status.active \in Nat /\ setCache.status.runners \in Nat
        /\ setCache.status.active <= setCache.status.runners
    BY <2>2 DEF SetStatus, RatioInv, Sane
  <2>4. /\ g.status_runners = setCache.status.runners
        /\ g.runner_active_ratio =
             ActiveRatio(setCache.status.active, setCache.status.runners)
    BY <2>1 DEF RunnerSetGauges
  <2>5. QED
    BY <2>3, <2>4, RatioBounds
<1>4. QED
  BY <1>1, <1>2, <1>3, PTL DEF Spec

-----------------------------------------------------------------------------
(* The current revision exists.                                            *)

\* the manager does not crash
NoCrashes == "crash" \notin Events

\* NoName: no revision has been named yet
KnownNames == NamesOf(revs) \cup {NoName}

\* The current revision, in the status stored or in the one in memory, exists.
CurrentExists ==
    IF pc = "idle" THEN set.alive => set.status.current \in KnownNames
                   ELSE st.current \in KnownNames

\* So does the revision MakeHistory returned.
NextExists == pc \in {"find", "examine"} \cup AfterFind => rev.name \in NamesOf(revs)

\* TruncateHistory has not chosen them.
DropSpares == pc = "truncate" => st.current \notin drop /\ rev.name \notin drop

PanicInv == NeverPanics /\ StatusIsOurs /\ CurrentExists /\ NextExists /\ DropSpares

\* Settling with revisions that are all there are does not panic.
LEMMA SettleKnown ==
    ASSUME SetInv, NEW name, NEW R, Settle(name, R), st.current \in NamesOf(R) \cup {NoName}
    PROVE  pc' = "find" /\ st'.current \in {st.current, name}
<1>1. st \in SetStatus
  BY DEF SetInv, WorkerTyped
<1>2. QED
  BY <1>1 DEF Settle, Goto, SetStatus

\* After it, both revisions exist.
LEMMA SettledExist ==
    ASSUME SetInv, NEW R, Settle(rev'.name, R), st.current \in NamesOf(R) \cup {NoName},
           NamesOf(R) \subseteq NamesOf(revs'), rev'.name \in NamesOf(revs'), StatusIsOurs'
    PROVE  PanicInv'
<1>1. pc' = "find" /\ st'.current \in {st.current, rev'.name}
  BY SettleKnown
<1>2. CurrentExists'
  BY <1>1 DEF CurrentExists, KnownNames
<1>3. QED
  BY <1>1, <1>2 DEF PanicInv, NeverPanics, NextExists, DropSpares

\* Every step keeps the current revision.
LEMMA PanicStep ==
    ASSUME CachesKeepUp, TemplatesMatch, CallsSucceed, NoCrashes
    PROVE  SetInv /\ AccountInv /\ HistoryInv /\ PanicInv /\ [Next]_vars => PanicInv'
<1> SUFFICES ASSUME SetInv, AccountInv, HistoryInv, PanicInv, [Next]_vars PROVE PanicInv'
  OBVIOUS
<1>1. StatusIsOurs'
  BY StatusStep DEF PanicInv
<1>2. CASE Others \/ UNCHANGED vars
  <2>1. UNCHANGED <<pc, st, rev, drop, revs>>
    BY <1>2, OthersSpareWorker, QuietHistory DEF worker, vars, QuietStep
  <2>2. set'.alive => set.alive /\ set'.status = set.status
    BY <1>2, OthersSpareStatus DEF vars
  <2>3. QED
    BY <1>1, <2>1, <2>2 DEF PanicInv, NeverPanics, CurrentExists, KnownNames, NextExists,
                            DropSpares
<1>3. ~RestartManager
  BY DEF RestartManager, NoCrashes, Happens, PanicInv, NeverPanics
<1>4. CASE Reconcile
  <2>1. setCache = set /\ UNCHANGED <<set, revs>> /\ pc = "idle"
    BY <1>4, ReadsTruth DEF Reconcile, server
  <2>2. \/ pc' = "idle"
        \/ pc' = "history" /\ set.alive /\ st' = set.status
    BY <1>4, <2>1 DEF Reconcile
  <2>3. CurrentExists'
    BY <2>1, <2>2 DEF PanicInv, CurrentExists, KnownNames
  <2>4. QED
    BY <1>1, <2>2, <2>3 DEF PanicInv, NeverPanics, NextExists, DropSpares, AfterFind
<1>5. CASE PatchStatus
  <2>1. pc = "patch" /\ pc' = "idle" /\ UNCHANGED revs /\ (set'.alive => set'.status = st)
    BY <1>5, PatchWritesOurs, CallsDoNotFail DEF PanicInv, PatchStatus
  <2>2. CurrentExists'
    BY <2>1 DEF PanicInv, CurrentExists, KnownNames
  <2>3. QED
    BY <1>1, <2>1, <2>2 DEF PanicInv, NeverPanics, NextExists, DropSpares, AfterFind
<1>6. CASE MakeHistory
  <2>1. pc = "history" /\ st.current \in KnownNames
    BY <1>6 DEF MakeHistory, PanicInv, CurrentExists
  <2>2. UNCHANGED revs
    BY <1>6, MakeHistoryFinds DEF HistoryInv
  <2>3. CASE rev' \in revs /\ Settle(rev'.name, revs)
    BY <1>1, <2>1, <2>2, <2>3, SettledExist DEF KnownNames, NamesOf
  <2>4. CASE pc' \in {"bump", "create"} /\ UNCHANGED st
    BY <1>1, <2>1, <2>2, <2>4
    DEF PanicInv, NeverPanics, CurrentExists, KnownNames, NextExists, DropSpares, AfterFind
  <2>5. QED
    BY <1>6, <2>3, <2>4, MakeHistoryFinds DEF HistoryInv
<1>7. CASE BumpRevision
  <2>1. pc = "bump" /\ st.current \in KnownNames
    BY <1>7 DEF BumpRevision, PanicInv, CurrentExists
  <2>2. /\ UNCHANGED rev /\ Settle(rev.name, revs)
        /\ revs' = (revs \ {r \in revs : r.name = rev.name}) \cup {rev}
    BY <1>7, BumpEffect, CallsDoNotFail DEF HistoryInv
  <2>3. NamesOf(revs) \subseteq NamesOf(revs') /\ rev.name \in NamesOf(revs')
    BY <2>2 DEF NamesOf
  <2>4. QED
    BY <1>1, <2>1, <2>2, <2>3, SettledExist DEF KnownNames
<1>8. CASE CreateRevision
  <2>1. pc = "create" /\ st.current \in KnownNames
    BY <1>8 DEF CreateRevision, PanicInv, CurrentExists
  <2>2. CASE Settle(rev.name, revs) /\ rev.name \in NamesOf(revs') /\ revs \subseteq revs'
    <3>1. NamesOf(revs) \subseteq NamesOf(revs') /\ UNCHANGED rev
      BY <1>8, <2>2 DEF NamesOf, CreateRevision
    <3>2. QED
      BY <1>1, <2>1, <2>2, <3>1, SettledExist DEF KnownNames
  <2>3. CASE UNCHANGED <<revs, st>> /\ pc' \in {"create", "patch"}
    BY <1>1, <2>1, <2>3
    DEF PanicInv, NeverPanics, CurrentExists, KnownNames, NextExists, DropSpares, AfterFind
  <2>4. QED
    BY <1>8, <2>1, <2>2, <2>3, CreateEffect DEF HistoryInv
<1>9. CASE Finish
  <2>1. /\ pc = "finish" /\ pc' \in {"patch", "truncate"} /\ UNCHANGED <<revs, rev>>
        /\ st' = [st EXCEPT !.current = CurrentRevision]
        /\ pc' = "truncate" => drop' \subseteq Histories
    BY <1>9 DEF Finish, Goto, server, Surplus
  <2>2. st'.current = CurrentRevision /\ st.next = rev.name
    BY <2>1 DEF SetInv, WorkerTyped, SetStatus, AccountInv, NextIsRev, AfterFind
  <2>3. CurrentRevision \in KnownNames /\ rev.name \in NamesOf(revs)
    BY <2>1 DEF CurrentRevision, PanicInv, CurrentExists, NextExists, AfterFind, KnownNames
  <2>4. CurrentRevision \notin Histories /\ rev.name \notin Histories
    BY <2>2 DEF Histories
  <2>5. DropSpares' /\ CurrentExists' /\ NextExists'
    BY <2>1, <2>2, <2>3, <2>4 DEF DropSpares, CurrentExists, KnownNames, NextExists
  <2>6. QED
    BY <1>1, <2>1, <2>5 DEF PanicInv, NeverPanics
<1>10. ASSUME NEW name \in drop, TruncateHistory(name) PROVE PanicInv'
  <2>1. /\ pc = "truncate" /\ pc' \in {"truncate", "patch"}
        /\ UNCHANGED <<rev, st>> /\ drop' \subseteq drop
        /\ \A r \in revs \ revs' : r.name \in drop
    BY <1>10, TruncateEffect
  <2>2. st.current \in KnownNames /\ rev.name \in NamesOf(revs)
    BY <2>1 DEF PanicInv, CurrentExists, NextExists, AfterFind
  <2>3. st.current \notin drop /\ rev.name \notin drop
    BY <2>1 DEF PanicInv, DropSpares
  <2>4. st.current \in KnownNames' /\ rev.name \in NamesOf(revs')
    BY <2>1, <2>2, <2>3 DEF KnownNames, NamesOf
  <2>5. QED
    BY <1>1, <2>1, <2>3, <2>4
    DEF PanicInv, NeverPanics, CurrentExists, NextExists, DropSpares
<1>11. CASE \/ FindRunners \/ SyncRunners \/ CreateRunner
            \/ \E n \in Names : AdoptRunner(n) \/ DiscardRunner(n) \/ DeleteRunner(n)
  <2>1. UNCHANGED <<revs, rev>>
    BY <1>11, QuietHistory
    DEF QuietStep, FindRunners, SyncRunners, CreateRunner, AdoptRunner, DiscardRunner,
        DeleteRunner
  <2>2. st'.current = st.current
    <3>1. st \in SetStatus
      BY DEF SetInv, WorkerTyped
    <3>2. QED
      BY <1>11, <3>1 DEF FindRunners, SyncRunners, CreateRunner, AdoptRunner, DiscardRunner,
                         DeleteRunner, CountedStatus, SetStatus
  <2>3. /\ pc \in {"find", "examine", "createRunner", "deleteRunner"}
        /\ pc' \in {"examine", "createRunner", "deleteRunner", "finish", "patch"}
    BY <1>11 DEF FindRunners, SyncRunners, CreateRunner, AdoptRunner, DiscardRunner,
                 DeleteRunner, Goto, LoopTo
  <2>4. st.current \in KnownNames /\ rev.name \in NamesOf(revs)
    BY <2>3 DEF PanicInv, CurrentExists, NextExists, AfterFind
  <2>5. QED
    BY <1>1, <2>1, <2>2, <2>3, <2>4
    DEF PanicInv, NeverPanics, CurrentExists, KnownNames, NextExists, DropSpares
<1>12. QED
  BY <1>2, <1>3, <1>4, <1>5, <1>6, <1>7, <1>8, <1>9, <1>10, <1>11, StepKinds DEF MidStep

\* For any history limit, hash and sequence of templates: while caches keep
\* up, templates match the selector, calls succeed and the manager does not
\* crash, MakeHistory finds the revision status.currentRevision names, and
\* the nil pointer of revision.go:150 is not dereferenced.
THEOREM HistoryNeverPanics ==
    ASSUME CachesKeepUp, TemplatesMatch, CallsSucceed, NoCrashes
    PROVE  Spec => []NeverPanics
<1> DEFINE I == SetInv /\ AccountInv /\ HistoryInv /\ PanicInv
<1>1. Init => I
  <2> SUFFICES ASSUME Init PROVE PanicInv
    BY InitSetInv, AccountInit, HistoryInit
  <2>1. set.status.current = NoName
    BY DEF Init, NewSet, NewStatus
  <2>2. QED
    BY <2>1 DEF Init, PanicInv, NeverPanics, StatusIsOurs, CurrentExists, KnownNames,
                NextExists, DropSpares, AfterFind
<1>2. I /\ [Next]_vars => I'
  BY SetInvStep, AccountStep, HistoryStep, PanicStep
<1>3. I => NeverPanics
  BY DEF PanicInv
<1>4. QED
  BY <1>1, <1>2, <1>3, PTL DEF Spec

=============================================================================
