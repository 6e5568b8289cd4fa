----------------------- MODULE RunnerSetScalingProofs -----------------------
(***************************************************************************)
(* What syncRunners does to the number of Runners: which ones a scale-down *)
(* takes, that a set never has more than it was asked to have, and that    *)
(* the revisions of the Runners it has survive TruncateHistory.            *)
(***************************************************************************)
EXTENDS RunnerSetProofs

-----------------------------------------------------------------------------
(* Who moves the worker.                                                   *)

Others == Users \/ Runners \/ CollectSet \/ Informers

\* Users, Runners, the garbage collector and the informers do not touch the
\* reconcile in progress.
LEMMA OthersSpareWorker ==
    ASSUME Others PROVE UNCHANGED worker
<1>1. CASE Users
  BY <1>1 DEF Users, EditSet, EditSpec, DeleteSet, RemoveRunner, CreateOrphan, OtherAdopts
<1>2. CASE Runners
  BY <1>2 DEF Runners, ReportPhase, RunnerGone, CollectRunner
<1>3. CASE CollectSet \/ Informers
  BY <1>3 DEF CollectSet, Informers, SyncSet, SyncRunnerCache, SyncRevisions
<1>4. QED
  BY <1>1, <1>2, <1>3 DEF Others

\* After a restart no reconcile is in progress.
LEMMA RestartEndsReconcile ==
    ASSUME RestartManager
    PROVE  /\ Restart
           /\ pc' = "idle" /\ before' = NoSet /\ st' = NewStatus /\ listed' = {}
           /\ todo' = NoneListed /\ kept' = NoneListed
BY DEF RestartManager, Restart, Done

-----------------------------------------------------------------------------
(* The victims of a scale-down.                                            *)

\* The victims left are some of those prioritizedRunnersToDelete chose.
Chosen ==
    pc = "deleteRunner" =>
       /\ before.spec.runners < Cardinality(DOMAIN kept)
       /\ \E V \in ToDelete(kept, Cardinality(DOMAIN kept) - before.spec.runners) :
             victims \subseteq V

\* The choice stands until the loop of deletions is over, whatever fails.
LEMMA ChosenStep == SetInv /\ Chosen /\ [Next]_vars => Chosen'
<1> SUFFICES ASSUME SetInv, Chosen, [Next]_vars PROVE Chosen'
  OBVIOUS
<1>1. CASE Others \/ UNCHANGED vars
  <2>1. UNCHANGED <<pc, before, kept, victims>>
    BY <1>1, OthersSpareWorker DEF worker, vars
  <2>2. QED
    BY <2>1 DEF Chosen
<1>2. CASE RestartManager
  BY <1>2, RestartEndsReconcile DEF Chosen
<1>3. CASE SyncRunners
  BY <1>3 DEF SyncRunners, Chosen, Goto
<1>4. CASE \E n \in Names : DeleteRunner(n)
  <2>1. UNCHANGED <<before, kept>> /\ victims' \subseteq victims /\ pc = "deleteRunner"
    BY <1>4 DEF DeleteRunner
  <2>2. QED
    BY <2>1 DEF Chosen
<1>5. CASE Reconcile \/ MakeHistory \/ BumpRevision \/ CreateRevision
  <2>1. pc # "deleteRunner" /\ pc' # "deleteRunner"
    BY <1>5 DEF Reconcile, MakeHistory, BumpRevision, CreateRevision, Settle, Goto, ReturnError
  <2>2. QED
    BY <2>1 DEF Chosen
<1>6. CASE \/ FindRunners \/ CreateRunner \/ Finish \/ PatchStatus
           \/ \E n \in Names : AdoptRunner(n) \/ DiscardRunner(n)
           \/ \E name \in drop : TruncateHistory(name)
  <2>1. pc' # "deleteRunner"
    BY <1>6 DEF FindRunners, CreateRunner, Finish, PatchStatus, AdoptRunner, DiscardRunner,
                TruncateHistory, Goto, ReturnError, LoopTo, Done
  <2>2. QED
    BY <2>1 DEF Chosen
<1>7. QED
  BY <1>1, <1>2, <1>3, <1>4, <1>5, <1>6 DEF Next, ReconcileStep, Others

\* If prioritizedRunnersToDelete takes an Active Runner that is not being
\* deleted, it leaves Active ones only.
LEMMA ActiveChosenLast ==
    ASSUME NEW f \in Listed, NEW want \in Nat, want < Cardinality(DOMAIN f),
           NEW V \in ToDelete(f, Cardinality(DOMAIN f) - want),
           NEW n \in V, f[n].phase = "Active", ~f[n].deleting
    PROVE  InPhase(f, "Active") > want
<1> DEFINE D == DOMAIN f
           A == {m \in D : f[m].phase = "Active"}
           K == D \ V
<1>1. IsFiniteSet(D) /\ Cardinality(D) \in Nat /\ V \in SUBSET D
  <2>1. D \in SUBSET Names
    BY DEF Listed
  <2>2. V \in SUBSET D
    BY DEF ToDelete
  <2>3. QED
    BY <2>1, <2>2, SetConstantsAssumption, FS_Subset, FS_CardinalityType
<1>2. Cardinality(V) = Cardinality(D) - want /\ D \cap V = V
  BY <1>1 DEF ToDelete
<1>3. IsFiniteSet(K) /\ Cardinality(K) = want
  <2>1. IsFiniteSet(K) /\ Cardinality(K) = Cardinality(D) - Cardinality(D \cap V)
    <3> HIDE DEF D
    <3> QED BY <1>1, FS_Difference
  <2>2. Cardinality(D \cap V) = Cardinality(D) - want
    BY <1>2, Zenon
  <2> HIDE DEF D, K
  <2>3. QED
    BY <1>1, <2>1, <2>2
<1>4. K \subseteq A
  <2>1. \A k \in K : Priority(f[n]) >= Priority(f[k])
    BY DEF ToDelete
  <2>2. Priority(f[n]) = 0
    BY DEF Priority
  <2>3. QED
    BY <2>1, <2>2 DEF Priority
<1>5. K \cup {n} \in SUBSET A
  BY <1>1, <1>4
<1>6. IsFiniteSet(A) /\ A \in SUBSET D /\ Cardinality(A) \in Nat
  BY <1>1, FS_Subset, FS_CardinalityType
<1>7. Cardinality(K \cup {n}) = want + 1
  BY <1>3, FS_AddElement
<1>8. Cardinality(K \cup {n}) <= Cardinality(A)
  BY <1>5, <1>6, FS_Subset
<1>9. QED
  BY <1>6, <1>7, <1>8 DEF InPhase

\* For any number of Runners and any interleaving: a reconcile deletes an
\* Active Runner only if it found more Active ones than spec.runners, also
\* after a failed or a half-done attempt (sortable.RunnersToDelete, syncRunners).
THEOREM ActiveRunnersLast == Spec => ActiveScaledDownLast
<1> DEFINE I == SetInv /\ Chosen
           A == \A n \in victims \ victims' :
                   pc = "deleteRunner" /\ kept[n].phase = "Active" /\ ~kept[n].deleting
                      => InPhase(kept, "Active") > before.spec.runners
<1>1. Init => I
  BY InitSetInv DEF Init, Chosen
<1>2. I /\ [Next]_vars => I'
  BY SetInvStep, ChosenStep
<1>3. I /\ [Next]_vars => [A]_vars
  <2> SUFFICES ASSUME I, NEW n \in victims, pc = "deleteRunner",
                      kept[n].phase = "Active", ~kept[n].deleting
               PROVE  InPhase(kept, "Active") > before.spec.runners
    OBVIOUS
  <2>1. PICK V \in ToDelete(kept, Cardinality(DOMAIN kept) - before.spec.runners) :
          victims \subseteq V
    BY DEF Chosen
  <2>2. /\ kept \in Listed /\ before.spec.runners \in Nat
        /\ before.spec.runners < Cardinality(DOMAIN kept)
    BY PresentSet DEF Chosen, SetInv, WorkerTyped, StoredSpec, Spec1alpha2
  <2>3. QED
    BY <2>1, <2>2, ActiveChosenLast
<1>4. QED
  BY <1>1, <1>2, <1>3, PTL DEF Spec, ActiveScaledDownLast

-----------------------------------------------------------------------------
(* Hypotheses under which the set keeps account of its Runners.            *)

\* no reconcile reads a cache that is behind the server
CachesKeepUp == "lag" \notin Events

\* no call of a reconcile fails
CallsSucceed == "call" \notin Events

\* every template still has the labels spec.selector asks for
TemplatesMatch == \A t \in StoredTemplates : Selects(t)

\* A cache that keeps up shows what the server has.
LEMMA ReadsTruth ==
    ASSUME CachesKeepUp, NEW cache, NEW truth, Reads(cache, truth)
    PROVE  cache = truth /\ UNCHANGED events
BY DEF CachesKeepUp, Reads, Happens

\* Calls that succeed do not fail.
LEMMA CallsDoNotFail == CallsSucceed => ~CallFails
BY DEF CallsSucceed, CallFails, Happens

-----------------------------------------------------------------------------
(* The Runners of the set that are not on their way out are the ones       *)
(* findRunners has found, and those made since.                            *)

Staying == {n \in Owned : ~runners[n].deleting}

\* the selector finds every Runner there is
OwnMatch == \A n \in Names : runners[n].exists => runners[n].match

\* findRunners counts Runner n, and knows its revision
IsKept(n) == n \in DOMAIN kept /\ kept[n].rev = runners[n].rev

\* syncRunners, and what follows it
AfterFind == {"createRunner", "deleteRunner", "finish", "truncate"}

Accounted ==
    /\ pc = "examine" => \A n \in Staying : n \in DOMAIN todo \/ IsKept(n)
    /\ pc \in AfterFind => \A n \in Staying : IsKept(n) \/ runners[n].rev = rev.name

\* MakeHistory has named its revision in the status
NextIsRev == pc \in {"find", "examine"} \cup AfterFind => st.next = rev.name

\* TruncateHistory has chosen no revision that is in use
Spared == pc = "truncate" => \A n \in Staying : runners[n].rev \notin drop

AccountInv == OwnMatch /\ Accounted /\ NextIsRev /\ Spared

\* a step makes no Runner of the set, and gives none another revision
NoNewcomer == \A n \in Staying' : n \in Staying /\ runners'[n].rev = runners[n].rev

\* Writing a Runner adds none, unless it turns one into a Runner of the set.
LEMMA WriteAddsNone ==
    ASSUME SetInv, OwnMatch, NEW n \in Names, NEW r \in RunnerCopy, WriteRunner(n, r),
           r.exists => r.match,
           r.exists /\ r.owner = "us" /\ ~r.deleting
              => n \in Staying /\ r.rev = runners[n].rev
    PROVE  OwnMatch' /\ NoNewcomer
<1>1. runners' = [runners EXCEPT ![n] = r] /\ runners \in [Names -> RunnerCopy]
  BY DEF WriteRunner, SetInv, ServerTyped
<1>2. runners'[n] = r /\ \A m \in Names \ {n} : runners'[m] = runners[m]
  BY <1>1
<1>3. QED
  BY <1>2 DEF OwnMatch, NoNewcomer, Staying, Owned

\* Deleting one adds none, and it is on its way out.
LEMMA DeletedAddsNone ==
    ASSUME SetInv, OwnMatch, NEW n \in Names, Deleted(n)
    PROVE  OwnMatch' /\ NoNewcomer /\ n \notin Staying'
<1>1. runners[n] \in RunnerCopy
  BY DEF SetInv, ServerTyped
<1>2. CASE ~runners[n].exists /\ UNCHANGED <<runners, owed>>
  BY <1>2 DEF OwnMatch, NoNewcomer, Staying, Owned
<1>3. CASE runners[n].exists /\ WriteRunner(n, [runners[n] EXCEPT !.deleting = TRUE])
  <2>1. PICK r \in RunnerCopy : r = [runners[n] EXCEPT !.deleting = TRUE]
    BY <1>1 DEF RunnerCopy
  <2>2. r.deleting /\ (r.exists => r.match)
    BY <1>1, <2>1 DEF OwnMatch, RunnerCopy
  <2>3. OwnMatch' /\ NoNewcomer
    BY <1>3, <2>1, <2>2, WriteAddsNone
  <2>4. runners'[n] = r
    BY <1>3, <2>1 DEF WriteRunner, SetInv, ServerTyped
  <2>5. QED
    BY <2>2, <2>3, <2>4 DEF Staying
<1>4. CASE WriteRunner(n, NoRunner)
  <2>1. NoRunner \in RunnerCopy /\ ~NoRunner.exists
    BY EmptyTypes DEF NoRunner
  <2>2. OwnMatch' /\ NoNewcomer
    BY <1>4, <2>1, WriteAddsNone
  <2>3. runners'[n] = NoRunner
    BY <1>4 DEF WriteRunner, SetInv, ServerTyped
  <2>4. QED
    BY <2>1, <2>2, <2>3 DEF Staying, Owned
<1>5. QED
  BY <1>2, <1>3, <1>4 DEF Deleted

\* Nobody but the RunnerSet controller makes a Runner of the set.
LEMMA OthersAddNone ==
    ASSUME SetInv, OwnMatch, Others PROVE OwnMatch' /\ NoNewcomer
<1>1. CASE UNCHANGED runners
  BY <1>1 DEF OwnMatch, NoNewcomer, Staying, Owned
<1>2. ASSUME NEW n \in Names, RemoveRunner(n) \/ CollectRunner(n)
      PROVE  OwnMatch' /\ NoNewcomer
  BY <1>2, DeletedAddsNone DEF RemoveRunner, CollectRunner
<1>3. ASSUME NEW n \in Names, CreateOrphan(n) PROVE OwnMatch' /\ NoNewcomer
  <2>1. PICK r \in RunnerCopy : r = [NoRunner EXCEPT !.exists = TRUE, !.match = TRUE]
    BY EmptyTypes DEF RunnerCopy
  <2>2. r.match /\ r.owner = "none"
    BY <2>1 DEF NoRunner
  <2>3. WriteRunner(n, r)
    BY <1>3, <2>1 DEF CreateOrphan
  <2>4. QED
    BY <2>2, <2>3, WriteAddsNone
<1>4. ASSUME NEW n \in Names, OtherAdopts(n) PROVE OwnMatch' /\ NoNewcomer
  <2>1. PICK r \in RunnerCopy : r = [runners[n] EXCEPT !.owner = "other"]
    BY DEF SetInv, ServerTyped, RunnerCopy
  <2>2. r.owner = "other" /\ (r.exists => r.match)
    BY <2>1 DEF OwnMatch, SetInv, ServerTyped, RunnerCopy
  <2>3. WriteRunner(n, r)
    BY <1>4, <2>1 DEF OtherAdopts
  <2>4. QED
    BY <2>2, <2>3, WriteAddsNone
<1>5. ASSUME NEW n \in Names, ReportPhase(n) PROVE OwnMatch' /\ NoNewcomer
  <2>1. PICK p \in Phases : WriteRunner(n, [runners[n] EXCEPT !.phase = p])
    BY <1>5 DEF ReportPhase
  <2>2. PICK r \in RunnerCopy : r = [runners[n] EXCEPT !.phase = p]
    BY DEF SetInv, ServerTyped, RunnerCopy
  <2>3. /\ r.exists = runners[n].exists /\ r.match = runners[n].match
        /\ r.owner = runners[n].owner /\ r.deleting = runners[n].deleting
        /\ r.rev = runners[n].rev
    BY <2>2 DEF SetInv, ServerTyped, RunnerCopy
  <2>4. QED
    BY <2>1, <2>2, <2>3, WriteAddsNone DEF OwnMatch, Staying, Owned
<1>6. ASSUME NEW n \in Names, RunnerGone(n) PROVE OwnMatch' /\ NoNewcomer
  <2>1. NoRunner \in RunnerCopy /\ ~NoRunner.exists
    BY EmptyTypes DEF NoRunner
  <2>2. QED
    BY <1>6, <2>1, WriteAddsNone DEF RunnerGone
<1>7. CASE EditSet \/ DeleteSet \/ CollectSet \/ Informers
  <2>1. UNCHANGED runners
    BY <1>7 DEF EditSet, EditSpec, DeleteSet, CollectSet, Informers, SyncSet,
                SyncRunnerCache, SyncRevisions, server
  <2>2. QED
    BY <1>1, <2>1
<1>8. QED
  BY <1>2, <1>3, <1>4, <1>5, <1>6, <1>7 DEF Others, Users, Runners

\* A step that adds no Runner and leaves the reconcile where it is keeps the
\* account.
LEMMA AccountSame ==
    ASSUME AccountInv, OwnMatch', NoNewcomer,
           UNCHANGED <<pc, st, rev, todo, kept, drop>>
    PROVE  AccountInv'
<1>1. Accounted'
  BY DEF AccountInv, Accounted, NoNewcomer, IsKept
<1>2. NextIsRev' /\ Spared'
  BY DEF AccountInv, NextIsRev, Spared, NoNewcomer
<1>3. QED
  BY <1>1, <1>2 DEF AccountInv

\* With the Runners as they were, nothing is to be shown before findRunners.
LEMMA AccountBefore ==
    ASSUME AccountInv, UNCHANGED runners, NextIsRev',
           pc' \notin {"examine"} \cup AfterFind
    PROVE  AccountInv'
BY DEF AccountInv, OwnMatch, Accounted, Spared, AfterFind

\* MakeHistory ends with its revision as the next one.
LEMMA SettleNext ==
    ASSUME SetInv, NEW name, NEW R, Settle(name, R)
    PROVE  pc' = "panic" \/ (pc' = "find" /\ st'.next = name)
<1>1. st \in SetStatus
  BY DEF SetInv, WorkerTyped
<1>2. QED
  BY <1>1 DEF Settle, Goto, SetStatus

\* The account is opened by MakeHistory ...
LEMMA HistoryAccount ==
    ASSUME SetInv, AccountInv, Reconcile \/ MakeHistory \/ BumpRevision \/ CreateRevision
    PROVE  AccountInv'
<1>1. UNCHANGED runners
  BY DEF Reconcile, MakeHistory, BumpRevision, CreateRevision, server, CallFails
<1>2. CASE Reconcile
  <2>1. pc' \in {"idle", "history"}
    BY <1>2 DEF Reconcile
  <2>2. QED
    BY <1>1, <2>1, AccountBefore DEF NextIsRev, AfterFind
<1>3. CASE MakeHistory
  <2>1. pc' \in {"bump", "create"} \/ Settle(rev'.name, ListRevision)
    BY <1>3 DEF MakeHistory, Goto
  <2>2. pc' \in {"bump", "create", "panic"} \/ (pc' = "find" /\ st'.next = rev'.name)
    BY <2>1, SettleNext
  <2>3. QED
    BY <1>1, <2>2, AccountBefore DEF NextIsRev, AfterFind
<1>4. CASE BumpRevision \/ CreateRevision
  <2>1. rev' = rev /\ (pc' \in {"patch", "create"} \/ Settle(rev.name, listed))
    BY <1>4 DEF BumpRevision, CreateRevision, ReturnError
  <2>2. pc' \in {"patch", "create", "panic"} \/ (pc' = "find" /\ st'.next = rev'.name)
    BY <2>1, SettleNext
  <2>3. QED
    BY <1>1, <2>2, AccountBefore DEF NextIsRev, AfterFind
<1>5. QED
  BY <1>2, <1>3, <1>4

\* ... findRunners finds every Runner of the set ...
LEMMA FindAccount ==
    ASSUME CachesKeepUp, SetInv, AccountInv, FindRunners PROVE AccountInv'
<1>1. runnerCache = runners /\ UNCHANGED runners
  BY ReadsTruth DEF FindRunners, server
<1>2. pc = "find" /\ pc' = "examine" /\ UNCHANGED <<st, rev>>
  BY DEF FindRunners, Goto
<1>3. ASSUME NEW n \in Staying' PROVE n \in DOMAIN todo' \/ IsKept(n)'
  <2>1. n \in Staying /\ n \in Names /\ runners[n].exists /\ runners[n].owner = "us"
    BY <1>1, <1>3 DEF Staying, Owned
  <2>2. runners[n].match
    BY <2>1 DEF AccountInv, OwnMatch
  <2>3. CASE MustGo(runnerCache[n])
    <3>1. n \in DOMAIN todo'
      BY <1>1, <2>1, <2>2, <2>3 DEF FindRunners
    <3>2. QED
      BY <3>1
  <2>4. CASE ~MustGo(runnerCache[n])
    <3>1. n \in DOMAIN kept' /\ kept'[n] = runnerCache[n]
      BY <1>1, <2>1, <2>2, <2>4 DEF FindRunners
    <3>2. QED
      BY <1>1, <3>1 DEF IsKept
  <2>5. QED
    BY <2>3, <2>4
<1>4. QED
  BY <1>1, <1>2, <1>3 DEF AccountInv, OwnMatch, Accounted, NextIsRev, Spared, AfterFind

\* ... adopts one, which then counts or goes ...
LEMMA AdoptAccount ==
    ASSUME CallsSucceed, SetInv, AccountInv, NEW n \in Names, AdoptRunner(n)
    PROVE  AccountInv'
<1>1. pc = "examine" /\ UNCHANGED <<pc, st, rev, drop>> /\ n \in DOMAIN todo
  BY DEF AdoptRunner
<1>2. CASE /\ runners[n].exists
           /\ WriteRunner(n, [runners[n] EXCEPT !.owner = "us"])
           /\ \/ todo' = [todo EXCEPT ![n] = runners'[n]] /\ UNCHANGED kept
              \/ todo' = Without(todo, n) /\ kept' = With(kept, n, runners'[n])
  <2>1. PICK r \in RunnerCopy : r = [runners[n] EXCEPT !.owner = "us"]
    BY DEF SetInv, ServerTyped, RunnerCopy
  <2>2. r.match
    BY <1>2, <2>1 DEF AccountInv, OwnMatch, SetInv, ServerTyped, RunnerCopy
  <2>3. runners'[n] = r /\ \A m \in Names \ {n} : runners'[m] = runners[m]
    BY <1>2, <2>1 DEF WriteRunner, SetInv, ServerTyped
  <2>4. OwnMatch'
    BY <2>2, <2>3 DEF AccountInv, OwnMatch
  <2>5. n \in DOMAIN todo' \/ IsKept(n)'
    BY <1>1, <1>2 DEF IsKept, With
  <2>6. ASSUME NEW m \in Staying', m # n PROVE m \in DOMAIN todo' \/ IsKept(m)'
    <3>1. m \in Staying /\ runners'[m] = runners[m]
      BY <2>3, <2>6 DEF Staying, Owned
    <3>2. m \in DOMAIN todo \/ IsKept(m)
      BY <1>1, <3>1 DEF AccountInv, Accounted
    <3>3. QED
      BY <1>2, <2>6, <3>1, <3>2 DEF IsKept, With, Without
  <2>7. Accounted'
    BY <1>1, <2>5, <2>6 DEF Accounted, AfterFind
  <2>8. QED
    BY <1>1, <2>4, <2>7 DEF AccountInv, NextIsRev, Spared
<1>3. CASE ~runners[n].exists /\ UNCHANGED server /\ todo' = Without(todo, n) /\ UNCHANGED kept
  <2>1. UNCHANGED runners /\ n \notin Staying
    BY <1>3 DEF server, Staying, Owned
  <2>2. Accounted'
    BY <1>1, <1>3, <2>1 DEF AccountInv, Accounted, AfterFind, Staying, Owned, IsKept, Without
  <2>3. QED
    BY <1>1, <2>1, <2>2 DEF AccountInv, OwnMatch, NextIsRev, Spared
<1>4. QED
  BY <1>2, <1>3, CallsDoNotFail DEF AdoptRunner

\* ... or deletes one, which then is on its way out.
LEMMA DiscardAccount ==
    ASSUME CallsSucceed, SetInv, AccountInv, NEW n \in Names, DiscardRunner(n)
    PROVE  AccountInv'
<1>1. /\ pc = "examine" /\ UNCHANGED <<pc, st, rev, kept, drop>>
      /\ Deleted(n) /\ todo' = Without(todo, n)
  BY CallsDoNotFail DEF DiscardRunner
<1>2. OwnMatch' /\ NoNewcomer /\ n \notin Staying'
  BY <1>1, DeletedAddsNone DEF AccountInv
<1>3. ASSUME NEW m \in Staying' PROVE m \in DOMAIN todo' \/ IsKept(m)'
  <2>1. m # n /\ m \in Staying /\ runners'[m].rev = runners[m].rev
    BY <1>2, <1>3 DEF NoNewcomer
  <2>2. m \in DOMAIN todo \/ IsKept(m)
    BY <1>1, <2>1 DEF AccountInv, Accounted
  <2>3. QED
    BY <1>1, <2>1, <2>2 DEF IsKept, Without
<1>4. QED
  BY <1>1, <1>2, <1>3 DEF AccountInv, Accounted, NextIsRev, Spared, AfterFind

\* Counting and deleting change nothing of the account; a new Runner has the
\* revision of the reconcile.
LEMMA SyncAccount ==
    ASSUME CallsSucceed, TemplatesMatch, SetInv, AccountInv,
           SyncRunners \/ CreateRunner \/ \E n \in Names : DeleteRunner(n)
    PROVE  AccountInv'
<1>1. CASE SyncRunners
  <2>1. /\ pc = "examine" /\ pc' \in {"createRunner", "deleteRunner", "finish"}
        /\ DOMAIN todo = {} /\ UNCHANGED <<runners, rev, kept>> /\ st' = CountedStatus
    BY <1>1 DEF SyncRunners, Goto, server
  <2>2. st'.next = st.next
    BY <2>1 DEF CountedStatus, SetInv, WorkerTyped, SetStatus
  <2>3. Accounted'
    BY <2>1 DEF AccountInv, Accounted, AfterFind, Staying, Owned, IsKept
  <2>4. QED
    BY <2>1, <2>2, <2>3 DEF AccountInv, OwnMatch, NextIsRev, Spared, AfterFind
<1>2. CASE CreateRunner
  <2>1. /\ pc = "createRunner" /\ pc' \in {"createRunner", "finish", "patch"}
        /\ UNCHANGED <<st, rev, todo, kept, drop>>
    BY <1>2 DEF CreateRunner, LoopTo
  <2>2. CASE UNCHANGED runners
    BY <2>1, <2>2 DEF AccountInv, OwnMatch, Accounted, NextIsRev, Spared, AfterFind,
                      Staying, Owned, IsKept
  <2>3. ASSUME NEW n \in FreshNames, WriteRunner(n, NewRunner) PROVE AccountInv'
    <3>1. n \in Names /\ NewRunner \in RunnerCopy
      BY <2>1, NewRunnerType DEF FreshNames
    <3>2. before.spec.template \in StoredTemplates
      BY <2>1, PresentSet DEF SetInv, WorkerTyped, StoredSpec
    <3>3. NewRunner.match /\ NewRunner.rev = rev.name
      BY <3>2 DEF NewRunner, TemplatesMatch
    <3>4. runners'[n] = NewRunner /\ \A m \in Names \ {n} : runners'[m] = runners[m]
      BY <2>3, <3>1 DEF WriteRunner, SetInv, ServerTyped
    <3>5. OwnMatch'
      BY <3>3, <3>4 DEF AccountInv, OwnMatch
    <3>6. ASSUME NEW m \in Staying' PROVE IsKept(m)' \/ runners'[m].rev = rev'.name
      <4>1. CASE m = n
        BY <2>1, <3>3, <3>4, <4>1
      <4>2. CASE m # n
        <5>1. m \in Staying /\ runners'[m] = runners[m]
          BY <3>4, <3>6, <4>2 DEF Staying, Owned
        <5>2. QED
          BY <2>1, <5>1 DEF AccountInv, Accounted, AfterFind, IsKept
      <4>3. QED
        BY <4>1, <4>2
    <3>7. QED
      BY <2>1, <3>5, <3>6 DEF AccountInv, Accounted, NextIsRev, Spared, AfterFind
  <2>4. QED
    BY <1>2, <2>2, <2>3, CallsDoNotFail DEF CreateRunner, server
<1>3. ASSUME NEW n \in Names, DeleteRunner(n) PROVE AccountInv'
  <2>1. /\ pc = "deleteRunner" /\ pc' \in {"deleteRunner", "finish", "patch"}
        /\ UNCHANGED <<st, rev, todo, kept, drop>> /\ Deleted(n)
    BY <1>3, CallsDoNotFail DEF DeleteRunner, LoopTo
  <2>2. OwnMatch' /\ NoNewcomer
    BY <2>1, DeletedAddsNone DEF AccountInv
  <2>3. QED
    BY <2>1, <2>2 DEF AccountInv, Accounted, NextIsRev, Spared, AfterFind, NoNewcomer, IsKept
<1>4. QED
  BY <1>1, <1>2, <1>3

\* The surplus is chosen among the revisions nobody uses.
LEMMA FinishAccount ==
    ASSUME SetInv, AccountInv,
           Finish \/ PatchStatus \/ \E name \in drop : TruncateHistory(name)
    PROVE  AccountInv'
<1>1. CASE Finish
  <2>1. /\ pc = "finish" /\ pc' \in {"patch", "truncate"}
        /\ UNCHANGED <<runners, rev, kept>>
        /\ pc' = "truncate" => drop' \subseteq Histories
        /\ st' = [st EXCEPT !.current = CurrentRevision]
    BY <1>1 DEF Finish, Goto, server, Surplus
  <2>2. st'.next = st.next /\ st.next = rev.name
    BY <2>1 DEF SetInv, WorkerTyped, SetStatus, AccountInv, NextIsRev, AfterFind
  <2>3. ASSUME NEW n \in Staying' PROVE runners'[n].rev \notin Histories
    BY <2>1, <2>2, <2>3 DEF AccountInv, Accounted, AfterFind, Staying, Owned, IsKept, Histories
  <2>4. Accounted' /\ Spared'
    BY <2>1, <2>3 DEF AccountInv, Accounted, AfterFind, Spared, Staying, Owned, IsKept
  <2>5. QED
    BY <2>1, <2>2, <2>4 DEF AccountInv, OwnMatch, NextIsRev
<1>2. CASE PatchStatus
  <2>1. pc' = "idle" /\ UNCHANGED runners
    BY <1>2 DEF PatchStatus, Done, server, CallFails
  <2>2. QED
    BY <2>1, AccountBefore DEF NextIsRev, AfterFind
<1>3. ASSUME NEW name \in drop, TruncateHistory(name) PROVE AccountInv'
  <2>1. /\ pc = "truncate" /\ pc' \in {"patch", "truncate"} /\ drop' \subseteq drop
        /\ UNCHANGED <<runners, st, rev, todo, kept>>
    BY <1>3 DEF TruncateHistory, Goto, ReturnError, server, CallFails
  <2>2. QED
    BY <2>1 DEF AccountInv, OwnMatch, Accounted, NextIsRev, Spared, AfterFind,
                Staying, Owned, IsKept
<1>4. QED
  BY <1>1, <1>2, <1>3

\* The account holds from the start ...
LEMMA AccountInit == Init => AccountInv
BY EmptyTypes DEF Init, AccountInv, OwnMatch, Accounted, NextIsRev, Spared, AfterFind, NoRunner

\* ... and every step keeps it.
LEMMA AccountStep ==
    ASSUME CachesKeepUp, CallsSucceed, TemplatesMatch
    PROVE  SetInv /\ AccountInv /\ [Next]_vars => AccountInv'
<1> SUFFICES ASSUME SetInv, AccountInv, [Next]_vars PROVE AccountInv'
  OBVIOUS
<1>1. CASE Others
  <2>1. UNCHANGED <<pc, st, rev, todo, kept, drop>>
    BY <1>1, OthersSpareWorker DEF worker
  <2>2. OwnMatch' /\ NoNewcomer
    BY <1>1, OthersAddNone DEF AccountInv
  <2>3. QED
    BY <2>1, <2>2, AccountSame
<1>2. CASE UNCHANGED vars
  <2>1. UNCHANGED <<runners, pc, st, rev, todo, kept, drop>>
    BY <1>2 DEF vars
  <2>2. OwnMatch' /\ NoNewcomer
    BY <2>1 DEF AccountInv, OwnMatch, NoNewcomer, Staying, Owned
  <2>3. QED
    BY <2>1, <2>2, AccountSame
<1>3. CASE RestartManager
  <2>1. pc' = "idle" /\ UNCHANGED runners
    BY <1>3, RestartEndsReconcile DEF Restart
  <2>2. QED
    BY <2>1, AccountBefore DEF NextIsRev, AfterFind
<1>4. CASE ReconcileStep
  <2>1. ASSUME NEW n \in Names, AdoptRunner(n) \/ DiscardRunner(n) \/ DeleteRunner(n)
        PROVE  AccountInv'
    BY <2>1, AdoptAccount, DiscardAccount, SyncAccount
  <2>2. QED
    BY <1>4, <2>1, HistoryAccount, FindAccount, SyncAccount, FinishAccount DEF ReconcileStep
<1>5. QED
  BY <1>1, <1>2, <1>3, <1>4 DEF Next, Others

\* A name disappears from the history only if TruncateHistory chose it.
LEMMA DroppedNames ==
    ASSUME SetInv, [Next]_vars, NEW name \in NamesOf(revs) \ NamesOf(revs')
    PROVE  pc = "truncate" /\ name \in drop /\ UNCHANGED runners
<1>1. revs' # revs
  OBVIOUS
<1>2. CASE Others \/ RestartManager \/ UNCHANGED vars
  BY <1>1, <1>2 DEF Others, Users, EditSet, EditSpec, DeleteSet, RemoveRunner, CreateOrphan,
     OtherAdopts, Runners, ReportPhase, RunnerGone, CollectRunner, CollectSet, Informers,
     SyncSet, SyncRunnerCache, SyncRevisions, RestartManager, Restart, server, vars
<1>3. CASE BumpRevision
  BY <1>1, <1>3 DEF BumpRevision, NamesOf, CallFails, server
<1>4. CASE CreateRevision
  BY <1>1, <1>4 DEF CreateRevision, NamesOf, CallFails, server
<1>5. ASSUME NEW d \in drop, TruncateHistory(d)
      PROVE  pc = "truncate" /\ name \in drop /\ UNCHANGED runners
  BY <1>1, <1>5 DEF TruncateHistory, NamesOf, CallFails, server
<1>6. CASE \/ Reconcile \/ MakeHistory \/ FindRunners \/ SyncRunners \/ CreateRunner
           \/ Finish \/ PatchStatus
           \/ \E n \in Names : AdoptRunner(n) \/ DiscardRunner(n) \/ DeleteRunner(n)
  BY <1>1, <1>6 DEF Reconcile, MakeHistory, FindRunners, SyncRunners, CreateRunner, Finish,
     PatchStatus, AdoptRunner, DiscardRunner, DeleteRunner, CallFails, server
<1>7. QED
  BY <1>2, <1>3, <1>4, <1>5, <1>6 DEF Next, ReconcileStep, Others

\* With any number of Runners and templates, and although Runners are removed
\* and adopted and the manager crashes meanwhile: while caches keep up, calls
\* succeed and templates match the selector, TruncateHistory deletes no
\* revision that a Runner of the set was made from (revision.go, TruncateHistory).
THEOREM UsedRevisionsSurvive ==
    ASSUME CachesKeepUp, CallsSucceed, TemplatesMatch
    PROVE  Spec => TruncationKeepsUsed
<1> DEFINE I == SetInv /\ AccountInv
           A == \A name \in NamesOf(revs) \ NamesOf(revs'), n \in Owned :
                   runners[n].deleting \/ runners[n].rev # name
<1>1. Init => I
  BY InitSetInv, AccountInit
<1>2. I /\ [Next]_vars => I'
  BY SetInvStep, AccountStep
<1>3. I /\ [Next]_vars => [A]_vars
  BY DroppedNames DEF AccountInv, Spared, Staying
<1>4. QED
  BY <1>1, <1>2, <1>3, PTL DEF Spec, TruncationKeepsUsed

-----------------------------------------------------------------------------
(* How many Runners the set has.                                           *)

\* nobody creates Runners for the selector to find
NoOrphans == "orphan" \notin Events

\* every Runner is one of the set, and needs no adoption
AllOurs ==
    /\ \A n \in Names : runners[n].exists => runners[n].owner = "us"
    /\ pc = "examine" => \A n \in DOMAIN todo : todo[n].owner = "us"

\* the number of Runners asked for was asked for by a user
Asked == \A s \in {set, setCache, before} : s # NoSet => s.spec.runners \in Counts

\* what is still to be created has room
Room == pc = "createRunner" => Cardinality(Staying) + left <= before.spec.runners

Bounded == \E c \in Counts : Cardinality(Staying) <= c

CountInv == AllOurs /\ Asked /\ Room /\ Bounded

\* The Runners of the set can be counted.
LEMMA StayingFinite ==
    IsFiniteSet(Staying) /\ Cardinality(Staying) \in Nat /\ Staying \subseteq Names
<1>1. Staying \in SUBSET Names
  BY DEF Staying, Owned
<1>2. QED
  BY <1>1, SetConstantsAssumption, FS_Subset, FS_CardinalityType

\* A step that adds no Runner leaves no more of them.
LEMMA NoNewcomerCount ==
    ASSUME NoNewcomer
    PROVE  Cardinality(Staying') <= Cardinality(Staying) /\ Cardinality(Staying') \in Nat
<1>1. Staying' \in SUBSET Staying
  BY DEF NoNewcomer
<1>2. QED
  BY <1>1, StayingFinite, FS_Subset, FS_CardinalityType

\* So it keeps the bound.
LEMMA BoundedSame == ASSUME Bounded, NoNewcomer PROVE Bounded'
<1>1. PICK c \in Counts : Cardinality(Staying) <= c
  BY DEF Bounded
<1>2. c \in Nat /\ Cardinality(Staying) \in Nat
  BY StayingFinite, SetConstantsAssumption
<1>3. Cardinality(Staying') <= c
  BY <1>1, <1>2, NoNewcomerCount
<1>4. QED
  BY <1>3 DEF Bounded

\* An edit leaves a number of Runners that some user has written.
LEMMA EditAsked ==
    ASSUME SetInv, Asked, EditSet PROVE set' # NoSet => set'.spec.runners \in Counts
<1>1. set.alive /\ set \in StoredSet
  BY DEF EditSet, EditSpec, SetInv, ServerTyped
<1>2. set \in SetObject /\ set.spec \in StoredSpec /\ set # NoSet
  BY <1>1, StoredSetType, EmptyTypes
<1>3. set.spec.runners \in Counts
  BY <1>2 DEF Asked
<1>4. ASSUME NEW s \in Spec1alpha2 PROVE Default(s).runners = s.runners
  BY DEF Default, Spec1alpha2
<1>5. ASSUME NEW s, EditSpec(s) PROVE set'.spec = s
  BY <1>2, <1>5 DEF EditSpec, SetObject
<1>6. ASSUME NEW n \in Counts, EditSpec(Default([set.spec EXCEPT !.runners = n]))
      PROVE  set'.spec.runners = n
  <2>1. PICK s : s = [set.spec EXCEPT !.runners = n]
    OBVIOUS
  <2>2. s \in Spec1alpha2 /\ s.runners = n
    BY <1>2, <2>1, SetConstantsAssumption DEF StoredSpec, Spec1alpha2
  <2>3. QED
    BY <1>4, <1>5, <1>6, <2>1, <2>2
<1>7. ASSUME NEW t \in Templates, EditSpec(Default([set.spec EXCEPT !.template = t]))
      PROVE  set'.spec.runners = set.spec.runners
  <2>1. PICK s : s = [set.spec EXCEPT !.template = t]
    OBVIOUS
  <2>2. s \in Spec1alpha2 /\ s.runners = set.spec.runners
    BY <1>2, <2>1, SetConstantsAssumption DEF StoredSpec, Spec1alpha2
  <2>3. QED
    BY <1>4, <1>5, <1>7, <2>1, <2>2
<1>8. ASSUME NEW y \in Strategies, EditSpec(Default([set.spec EXCEPT !.strategy = y]))
      PROVE  set'.spec.runners = set.spec.runners
  <2>1. PICK s : s = [set.spec EXCEPT !.strategy = y]
    OBVIOUS
  <2>2. s \in Spec1alpha2 /\ s.runners = set.spec.runners
    BY <1>2, <2>1, SetConstantsAssumption DEF StoredSpec, Spec1alpha2
  <2>3. QED
    BY <1>4, <1>5, <1>8, <2>1, <2>2
<1>9. ASSUME NEW n \in Counts, EditSpec(Default(ScaledByV1alpha1(set.spec, n)))
      PROVE  set'.spec.runners = n
  <2>1. ScaledByV1alpha1(set.spec, n) \in Spec1alpha2
    BY <1>2, ConversionType, SetConstantsAssumption DEF StoredSpec
  <2>2. ScaledByV1alpha1(set.spec, n).runners = n
    BY DEF ScaledByV1alpha1, Defaulted, ConvertTo, ConvertFrom
  <2>3. QED
    BY <1>4, <1>5, <1>9, <2>1, <2>2
<1>10. QED
  BY <1>3, <1>6, <1>7, <1>8, <1>9 DEF EditSet

\* Every step keeps to numbers users have written.
LEMMA AskedStep == ASSUME SetInv, Asked, [Next]_vars PROVE Asked'
<1>1. CASE EditSet
  <2>1. UNCHANGED <<setCache, before>>
    BY <1>1 DEF EditSet, EditSpec, caches, worker
  <2>2. QED
    BY <1>1, <2>1, EditAsked DEF Asked
<1>2. CASE DeleteSet \/ CollectSet
  <2>1. UNCHANGED <<setCache, before>>
    BY <1>2 DEF DeleteSet, CollectSet, caches, worker
  <2>2. set' # NoSet => set # NoSet /\ set'.spec = set.spec
    <3>1. CASE set' = [set EXCEPT !.deleting = TRUE] /\ set.alive
      <4>1. set \in SetObject /\ set # NoSet
        BY <3>1, StoredSetType, EmptyTypes DEF SetInv, ServerTyped
      <4>2. QED
        BY <3>1, <4>1 DEF SetObject
    <3>2. QED
      BY <1>2, <3>1 DEF DeleteSet, CollectSet
  <2>3. QED
    BY <2>1, <2>2 DEF Asked
<1>3. CASE PatchStatus
  <2>1. UNCHANGED setCache /\ before' = NoSet
    BY <1>3 DEF PatchStatus, caches, Done
  <2>2. set' # NoSet => set # NoSet /\ set'.spec = set.spec
    <3>1. CASE set' = [set EXCEPT !.status = MergedStatus] /\ set.alive
      <4>1. set \in SetObject /\ set # NoSet
        BY <3>1, StoredSetType, EmptyTypes DEF SetInv, ServerTyped
      <4>2. QED
        BY <3>1, <4>1 DEF SetObject
    <3>2. QED
      BY <1>3, <3>1 DEF PatchStatus, CallFails, server
  <2>3. QED
    BY <2>1, <2>2 DEF Asked
<1>4. CASE Reconcile
  BY <1>4 DEF Reconcile, Asked, server, caches
<1>5. CASE Informers
  BY <1>5 DEF Informers, SyncSet, SyncRunnerCache, SyncRevisions, server, worker, Asked
<1>6. CASE RestartManager
  BY <1>6 DEF RestartManager, Restart, Done, Asked
<1>7. CASE \/ \E n \in Names : RemoveRunner(n) \/ CreateOrphan(n) \/ OtherAdopts(n)
           \/ Runners \/ UNCHANGED vars
  <2>1. UNCHANGED <<set, setCache, before>>
    BY <1>7 DEF RemoveRunner, CreateOrphan, OtherAdopts, Runners, ReportPhase, RunnerGone,
                CollectRunner, caches, worker, vars
  <2>2. QED
    BY <2>1 DEF Asked
<1>8. CASE \/ MakeHistory \/ BumpRevision \/ CreateRevision \/ FindRunners
           \/ SyncRunners \/ CreateRunner \/ Finish
           \/ \E n \in Names : AdoptRunner(n) \/ DiscardRunner(n) \/ DeleteRunner(n)
           \/ \E name \in drop : TruncateHistory(name)
  <2>1. UNCHANGED <<set, setCache, before>>
    BY <1>8 DEF MakeHistory, BumpRevision, CreateRevision, FindRunners, SyncRunners,
                CreateRunner, Finish, AdoptRunner, DiscardRunner, DeleteRunner,
                TruncateHistory, caches, server, CallFails
  <2>2. QED
    BY <2>1 DEF Asked
<1>9. QED
  BY <1>1, <1>2, <1>3, <1>4, <1>5, <1>6, <1>7, <1>8 DEF Next, ReconcileStep, Users

\* Without orphans nobody has anything to adopt.
LEMMA WriteOurs ==
    ASSUME SetInv, AllOurs, NEW n \in Names, NEW r \in RunnerCopy, WriteRunner(n, r),
           r.exists => r.owner = "us"
    PROVE  \A m \in Names : runners'[m].exists => runners'[m].owner = "us"
<1>1. runners'[n] = r /\ \A m \in Names \ {n} : runners'[m] = runners[m]
  BY DEF WriteRunner, SetInv, ServerTyped
<1>2. QED
  BY <1>1 DEF AllOurs

\* A deletion leaves our Runners ours.
LEMMA DeletedOurs ==
    ASSUME SetInv, AllOurs, NEW n \in Names, Deleted(n)
    PROVE  \A m \in Names : runners'[m].exists => runners'[m].owner = "us"
<1>1. PICK r \in RunnerCopy : r = [runners[n] EXCEPT !.deleting = TRUE]
  BY DEF SetInv, ServerTyped, RunnerCopy
<1>2. r.exists => r.owner = "us"
  BY <1>1 DEF AllOurs, SetInv, ServerTyped, RunnerCopy
<1>3. NoRunner \in RunnerCopy /\ ~NoRunner.exists
  BY EmptyTypes DEF NoRunner
<1>4. QED
  BY <1>1, <1>2, <1>3, WriteOurs DEF Deleted, AllOurs

\* Every step leaves every Runner ours.
LEMMA OursStep ==
    ASSUME NoOrphans, CachesKeepUp, SetInv, AllOurs, [Next]_vars PROVE AllOurs'
<1> DEFINE Ours == \A m \in Names : runners'[m].exists => runners'[m].owner = "us"
<1>1. UNCHANGED runners => Ours
  BY DEF AllOurs
<1>2. ASSUME NEW n \in Names,
             RemoveRunner(n) \/ CollectRunner(n) \/ DiscardRunner(n) \/ DeleteRunner(n)
      PROVE  Ours
  <2>1. Deleted(n) \/ UNCHANGED runners
    BY <1>2 DEF RemoveRunner, CollectRunner, DiscardRunner, DeleteRunner, CallFails, server
  <2>2. QED
    BY <1>1, <2>1, DeletedOurs
<1>3. ASSUME NEW n \in Names, CreateOrphan(n) \/ OtherAdopts(n) \/ AdoptRunner(n) PROVE FALSE
  BY <1>3 DEF CreateOrphan, OtherAdopts, AdoptRunner, AllOurs, NoOrphans, Happens
<1>4. ASSUME NEW n \in Names, ReportPhase(n) PROVE Ours
  <2>1. PICK p \in Phases : WriteRunner(n, [runners[n] EXCEPT !.phase = p])
    BY <1>4 DEF ReportPhase
  <2>2. PICK r \in RunnerCopy : r = [runners[n] EXCEPT !.phase = p]
    BY DEF SetInv, ServerTyped, RunnerCopy
  <2>3. r.exists => r.owner = "us"
    BY <2>2 DEF AllOurs, SetInv, ServerTyped, RunnerCopy
  <2>4. QED
    BY <2>1, <2>2, <2>3, WriteOurs
<1>5. ASSUME NEW n \in Names, RunnerGone(n) PROVE Ours
  BY <1>5, EmptyTypes, WriteOurs DEF RunnerGone, NoRunner
<1>6. ASSUME CreateRunner PROVE Ours
  <2>1. ASSUME NEW n \in FreshNames, WriteRunner(n, NewRunner) PROVE Ours
    <3>1. n \in Names /\ NewRunner \in RunnerCopy /\ NewRunner.owner = "us"
      BY <1>6, NewRunnerType DEF CreateRunner, FreshNames, NewRunner
    <3>2. QED
      BY <2>1, <3>1, WriteOurs
  <2>2. QED
    BY <1>1, <1>6, <2>1 DEF CreateRunner, CallFails, server
<1>7. ASSUME \/ EditSet \/ DeleteSet \/ CollectSet \/ Informers \/ RestartManager \/ UNCHANGED vars
             \/ Reconcile \/ MakeHistory \/ BumpRevision \/ CreateRevision \/ FindRunners
             \/ SyncRunners \/ Finish \/ PatchStatus
             \/ \E name \in drop : TruncateHistory(name)
      PROVE  Ours
  <2>1. UNCHANGED runners
    BY <1>7 DEF EditSet, EditSpec, DeleteSet, CollectSet, Informers, SyncSet, SyncRunnerCache,
       SyncRevisions, RestartManager, Restart, vars, Reconcile, MakeHistory, BumpRevision,
       CreateRevision, FindRunners, SyncRunners, Finish, PatchStatus, TruncateHistory,
       CallFails, server
  <2>2. QED
    BY <1>1, <2>1
<1>8. Ours
  BY <1>2, <1>3, <1>4, <1>5, <1>6, <1>7 DEF Next, ReconcileStep, Users, Runners
<1>9. pc' = "examine" => \A n \in DOMAIN todo' : todo'[n].owner = "us"
  <2>1. CASE FindRunners
    <3>1. runnerCache = runners
      BY <2>1, ReadsTruth DEF FindRunners
    <3>2. \A n \in DOMAIN todo' : n \in Names /\ todo'[n] = runners[n] /\ runners[n].exists
      BY <2>1, <3>1 DEF FindRunners
    <3>3. QED
      BY <3>2 DEF AllOurs
  <2>2. ASSUME NEW n \in Names, DiscardRunner(n)
        PROVE  pc' = "examine" => \A m \in DOMAIN todo' : todo'[m].owner = "us"
    BY <2>2 DEF DiscardRunner, Without, AllOurs
  <2>3. CASE Others \/ UNCHANGED vars
    BY <2>3, OthersSpareWorker DEF worker, vars, AllOurs
  <2>4. CASE \/ Reconcile \/ MakeHistory \/ BumpRevision \/ CreateRevision
             \/ SyncRunners \/ CreateRunner \/ Finish \/ PatchStatus \/ RestartManager
             \/ \E n \in Names : DeleteRunner(n)
             \/ \E name \in drop : TruncateHistory(name)
    <3>1. pc' # "examine"
      BY <2>4, RestartEndsReconcile
      DEF Reconcile, MakeHistory, BumpRevision, CreateRevision, SyncRunners,
          CreateRunner, Finish, PatchStatus, DeleteRunner, TruncateHistory, Settle, Goto,
          ReturnError, LoopTo, Done
    <3>2. QED
      BY <3>1
  <2>5. QED
    BY <1>3, <2>1, <2>2, <2>3, <2>4 DEF Next, ReconcileStep, Others
<1>10. QED
  BY <1>8, <1>9 DEF AllOurs

\* Only CreateRunner makes Runners of the set.
LEMMA OnlyCreateAdds ==
    ASSUME NoOrphans, SetInv, AccountInv, AllOurs, [Next]_vars, ~CreateRunner
    PROVE  NoNewcomer
<1>1. CASE Others
  BY <1>1, OthersAddNone DEF AccountInv
<1>2. ASSUME NEW n \in Names, DiscardRunner(n) \/ DeleteRunner(n) PROVE NoNewcomer
  <2>1. Deleted(n) \/ UNCHANGED runners
    BY <1>2 DEF DiscardRunner, DeleteRunner, CallFails, server
  <2>2. QED
    BY <2>1, DeletedAddsNone DEF AccountInv, NoNewcomer, Staying, Owned
<1>3. ASSUME NEW n \in Names, AdoptRunner(n) PROVE FALSE
  BY <1>3 DEF AdoptRunner, AllOurs
<1>4. CASE \/ Reconcile \/ MakeHistory \/ BumpRevision \/ CreateRevision \/ FindRunners
           \/ SyncRunners \/ Finish \/ PatchStatus \/ RestartManager \/ UNCHANGED vars
           \/ \E name \in drop : TruncateHistory(name)
  <2>1. UNCHANGED runners
    BY <1>4 DEF RestartManager, Restart, vars, Reconcile, MakeHistory, BumpRevision,
       CreateRevision, FindRunners, SyncRunners, Finish, PatchStatus, TruncateHistory,
       CallFails, server
  <2>2. QED
    BY <2>1 DEF NoNewcomer, Staying, Owned
<1>5. QED
  BY <1>1, <1>2, <1>3, <1>4 DEF Next, ReconcileStep, Others

\* CreateRunner makes at most one, and there is room for it.
LEMMA CreateCount ==
    ASSUME SetInv, CountInv, CreateRunner
    PROVE  Room' /\ Bounded'
<1>1. /\ pc = "createRunner" /\ left \in Nat /\ left > 0 /\ left' = left - 1
      /\ UNCHANGED before
  BY DEF CreateRunner, SetInv, WorkerTyped
<1>2. Cardinality(Staying) + left <= before.spec.runners
  BY <1>1 DEF CountInv, Room
<1>3. before.spec.runners \in Counts /\ before.spec.runners \in Nat
  BY <1>1, SetConstantsAssumption DEF CountInv, Asked, SetInv, WorkerTyped
<1>4. Cardinality(Staying) \in Nat
  BY StayingFinite
<1>5. Cardinality(Staying') \in Nat /\ Cardinality(Staying') <= Cardinality(Staying) + 1
  <2>1. CASE UNCHANGED runners
    <3>1. Staying' = Staying
      BY <2>1 DEF Staying, Owned
    <3>2. QED
      BY <1>4, <3>1
  <2>2. ASSUME NEW n \in FreshNames, WriteRunner(n, NewRunner)
        PROVE  Cardinality(Staying') \in Nat
               /\ Cardinality(Staying') <= Cardinality(Staying) + 1
    <3>1. \A m \in Names \ {n} : runners'[m] = runners[m]
      BY <2>2 DEF WriteRunner, SetInv, ServerTyped
    <3>2. Staying' \in SUBSET (Staying \cup {n})
      BY <3>1 DEF Staying, Owned
    <3>3. /\ IsFiniteSet(Staying \cup {n})
          /\ Cardinality(Staying \cup {n}) \in Nat
          /\ Cardinality(Staying \cup {n}) <= Cardinality(Staying) + 1
      <4>1. /\ IsFiniteSet(Staying \cup {n})
            /\ Cardinality(Staying \cup {n}) \in {Cardinality(Staying), Cardinality(Staying) + 1}
        BY StayingFinite, FS_AddElement
      <4>2. QED
        BY <1>4, <4>1
    <3>4. /\ Cardinality(Staying') <= Cardinality(Staying \cup {n})
          /\ Cardinality(Staying') \in Nat
      BY <3>2, <3>3, FS_Subset, FS_CardinalityType
    <3>5. QED
      BY <1>4, <3>3, <3>4
  <2>3. QED
    BY <2>1, <2>2 DEF CreateRunner, CallFails, server
<1>6. Cardinality(Staying') + left' <= before'.spec.runners
  BY <1>1, <1>2, <1>3, <1>4, <1>5
<1>7. Cardinality(Staying') <= before.spec.runners
  BY <1>1, <1>2, <1>3, <1>4, <1>5
<1>8. QED
  BY <1>3, <1>6, <1>7 DEF Room, Bounded

\* syncRunners makes room for as many as are missing.
LEMMA SyncCount ==
    ASSUME SetInv, AccountInv, SyncRunners PROVE Room'
<1>1. /\ pc = "examine" /\ DOMAIN todo = {} /\ UNCHANGED <<runners, before>>
      /\ pc' = "createRunner" =>
            left' = before.spec.runners - Cardinality(DOMAIN kept)
  BY DEF SyncRunners, Goto, server, ToCreate
<1>2. DOMAIN kept \subseteq Names /\ IsFiniteSet(DOMAIN kept)
  <2>1. DOMAIN kept \in SUBSET Names
    BY DEF SetInv, WorkerTyped, Listed
  <2>2. QED
    BY <2>1, SetConstantsAssumption, FS_Subset
<1>3. Staying' = Staying /\ Staying \in SUBSET DOMAIN kept
  BY <1>1 DEF AccountInv, Accounted, IsKept, Staying, Owned
<1>4. /\ Cardinality(Staying) <= Cardinality(DOMAIN kept)
      /\ Cardinality(Staying) \in Nat /\ Cardinality(DOMAIN kept) \in Nat
  BY <1>2, <1>3, FS_Subset, FS_CardinalityType
<1>5. before.spec.runners \in Nat
  BY <1>1, PresentSet DEF SetInv, WorkerTyped, StoredSpec, Spec1alpha2
<1>6. CASE pc' = "createRunner"
  <2>1. Cardinality(Staying) + left' <= before.spec.runners
    BY <1>1, <1>4, <1>5, <1>6
  <2>2. QED
    BY <1>1, <1>3, <2>1 DEF Room
<1>7. QED
  BY <1>6 DEF Room

\* The count holds from the start ...
LEMMA CountInit == Init => CountInv
<1> SUFFICES ASSUME Init PROVE CountInv
  OBVIOUS
<1>1. AllOurs
  BY DEF Init, AllOurs, NoRunner
<1>2. PICK t \in Templates, n \in Counts, y \in Strategies, l \in Limits :
        set = NewSet(Default([runners |-> n, template |-> t, strategy |-> y, limit |-> l]))
  BY DEF Init
<1>3. set.spec.runners = n
  BY <1>2 DEF NewSet, Default
<1>4. Asked
  BY <1>3 DEF Init, Asked
<1>5. Staying = {}
  BY DEF Init, Staying, Owned, NoRunner
<1>6. n \in Nat /\ Cardinality(Staying) = 0
  BY <1>5, FS_EmptySet, SetConstantsAssumption
<1>7. Bounded
  BY <1>6 DEF Bounded
<1>8. QED
  BY <1>1, <1>4, <1>7 DEF Init, CountInv, Room

\* ... and every step keeps it.
LEMMA CountStep ==
    ASSUME NoOrphans, CachesKeepUp
    PROVE  SetInv /\ AccountInv /\ CountInv /\ [Next]_vars => CountInv'
<1> SUFFICES ASSUME SetInv, AccountInv, CountInv, [Next]_vars PROVE CountInv'
  OBVIOUS
<1>1. AllOurs' /\ Asked'
  BY OursStep, AskedStep DEF CountInv
<1>2. CASE CreateRunner
  BY <1>1, <1>2, CreateCount DEF CountInv
<1>3. CASE ~CreateRunner
  <2>1. NoNewcomer /\ Bounded'
    BY <1>3, OnlyCreateAdds, BoundedSame DEF CountInv
  <2>2. Room'
    <3>1. CASE SyncRunners
      BY <3>1, SyncCount
    <3>2. CASE Others \/ UNCHANGED vars
      <4>1. UNCHANGED <<pc, left, before>>
        BY <3>2, OthersSpareWorker DEF worker, vars
      <4>2. CASE pc = "createRunner"
        <5>1. left \in Nat /\ before.spec.runners \in Nat
          BY <4>2, PresentSet DEF SetInv, WorkerTyped, StoredSpec, Spec1alpha2
        <5>2. /\ Cardinality(Staying) \in Nat /\ Cardinality(Staying') \in Nat
              /\ Cardinality(Staying') <= Cardinality(Staying)
          BY <2>1, StayingFinite, NoNewcomerCount
        <5>3. Cardinality(Staying) + left <= before.spec.runners
          BY <4>2 DEF CountInv, Room
        <5>4. Cardinality(Staying') + left <= before.spec.runners
          BY <5>1, <5>2, <5>3
        <5>5. QED
          BY <4>1, <5>4 DEF Room
      <4>3. QED
        BY <4>1, <4>2 DEF Room
    <3>3. CASE \/ Reconcile \/ MakeHistory \/ BumpRevision \/ CreateRevision \/ FindRunners
               \/ Finish \/ PatchStatus \/ RestartManager
               \/ \E n \in Names : AdoptRunner(n) \/ DiscardRunner(n) \/ DeleteRunner(n)
               \/ \E name \in drop : TruncateHistory(name)
      <4>1. pc' # "createRunner"
        BY <3>3, RestartEndsReconcile
        DEF Reconcile, MakeHistory, BumpRevision, CreateRevision, FindRunners, Finish,
            PatchStatus, AdoptRunner, DiscardRunner, DeleteRunner, TruncateHistory, Settle,
            Goto, ReturnError, LoopTo, Done
      <4>2. QED
        BY <4>1 DEF Room
    <3>4. QED
      BY <1>3, <3>1, <3>2, <3>3 DEF Next, ReconcileStep, Others
  <2>3. QED
    BY <1>1, <2>1, <2>2 DEF CountInv
<1>4. QED
  BY <1>2, <1>3

\* For any number of Runners and any edits of the set: while caches keep up,
\* calls succeed, templates match the selector and nobody else makes Runners
\* for it, syncRunners never makes more Runners than some user asked for,
\* also when Runners come and go or the manager crashes in its loop.
THEOREM SetNeverOvershoots ==
    ASSUME CachesKeepUp, CallsSucceed, TemplatesMatch, NoOrphans
    PROVE  Spec => []NoOvershoot
<1> DEFINE I == SetInv /\ AccountInv /\ CountInv
<1>1. Init => I
  BY InitSetInv, AccountInit, CountInit
<1>2. I /\ [Next]_vars => I'
  BY SetInvStep, AccountStep, CountStep
<1>3. I => NoOvershoot
  <2> SUFFICES ASSUME I PROVE NoOvershoot
    OBVIOUS
  <2>1. PICK c \in Counts : Cardinality(Staying) <= c
    BY DEF CountInv, Bounded
  <2>2. Alive \in SUBSET Staying
    BY DEF Alive, Staying
  <2>3. /\ Cardinality(Alive) <= Cardinality(Staying)
        /\ Cardinality(Alive) \in Nat /\ Cardinality(Staying) \in Nat
    BY <2>2, StayingFinite, FS_Subset, FS_CardinalityType
  <2>4. c \in Nat
    BY SetConstantsAssumption
  <2>5. Cardinality(Alive) <= c
    BY <2>1, <2>3, <2>4
  <2>6. QED
    BY <2>5 DEF NoOvershoot
<1>4. QED
  BY <1>1, <1>2, <1>3, PTL DEF Spec

=============================================================================
