--------------------------- MODULE RunnerSetProofs ---------------------------
(***************************************************************************)
(* What TLAPS proves of RunnerSetSystem, for any set of names, templates,  *)
(* counts, strategies and limits, any hash and any events.                 *)
(***************************************************************************)
EXTENDS RunnerSetSystem, FiniteSetTheorems, TLAPS

-----------------------------------------------------------------------------
(* Finite sets have a last element: the sorted list of revisions has one.  *)

\* A finite set that is not empty has an element with the largest f.
LEMMA FiniteMax ==
    ASSUME NEW S, IsFiniteSet(S), S # {}, NEW f \in [S -> Nat]
    PROVE  \E x \in S : \A y \in S : f[y] <= f[x]
<1> DEFINE HasMax(U) == \E x \in U : \A y \in U : f[y] <= f[x]
           Bad == {U \in SUBSET S : U # {} /\ ~HasMax(U)}
<1>1. SUFFICES ASSUME Bad # {} PROVE FALSE
  OBVIOUS
<1>2. PICK U \in Bad : \A V \in Bad : ~(<<V, U>> \in StrictSubsetOrdering(S))
  <2>1. IsWellFoundedOn(StrictSubsetOrdering(S), FiniteSubsetsOf(S))
    BY FS_StrictSubsetOrderingWellFounded
  <2>2. Bad \subseteq FiniteSubsetsOf(S)
    BY FS_FiniteSubsetsOfFinite
  <2> HIDE DEF Bad
  <2>3. QED
    BY <1>1, <2>1, <2>2, WFMin
<1>3. PICK z \in U : TRUE
  OBVIOUS
<1>4. CASE U = {z}
  BY <1>4
<1>5. CASE U # {z}
  <2>1. /\ U \ {z} \in SUBSET S /\ U \ {z} # {}
        /\ <<U \ {z}, U>> \in StrictSubsetOrdering(S)
    BY <1>3, <1>5 DEF StrictSubsetOrdering
  <2>2. PICK x \in U \ {z} : \A y \in U \ {z} : f[y] <= f[x]
    BY <1>2, <2>1
  <2>3. HasMax(U)
    <3>1. f[x] \in Nat /\ f[z] \in Nat /\ \A y \in U : f[y] \in Nat
      BY <2>1
    <3>2. CASE f[z] <= f[x]
      BY <2>2, <3>2
    <3>3. CASE f[x] <= f[z]
      BY <2>2, <3>1, <3>3
    <3>4. QED
      BY <3>1, <3>2, <3>3
  <2>4. QED
    BY <2>3
<1>6. QED
  BY <1>4, <1>5

\* Revisions that their names, and their creation times, tell apart.
Distinguished(S) ==
    /\ S \subseteq RevisionObject /\ IsFiniteSet(S)
    /\ \A r, q \in S : r.name = q.name \/ r.born = q.born => r = q

\* Sorting by number and then by creation time, such a list has a last one.
LEMMA LatestIsLast ==
    ASSUME NEW S, Distinguished(S), S # {}
    PROVE  /\ Latest(S) \in S
           /\ \A q \in S \ {Latest(S)} : Less(q, Latest(S))
<1>1. \A r \in S : r.number \in Nat /\ r.born \in Nat
  BY DEF Distinguished, RevisionObject
<1>2. PICK m \in S : \A q \in S : q.number <= m.number
  <2> DEFINE f == [r \in S |-> r.number]
  <2>1. f \in [S -> Nat]
    BY <1>1
  <2>2. \E x \in S : \A y \in S : f[y] <= f[x]
    BY <2>1, FiniteMax DEF Distinguished
  <2>3. QED
    BY <2>2
<1> DEFINE T == {r \in S : r.number = m.number}
           g == [r \in T |-> r.born]
<1>3. PICK l \in T : \A q \in T : q.born <= l.born
  <2>1. g \in [T -> Nat] /\ IsFiniteSet(T) /\ T # {}
    BY <1>1, FS_Subset DEF Distinguished
  <2> HIDE DEF T
  <2>2. \E x \in T : \A y \in T : g[y] <= g[x]
    <3> HIDE DEF g
    <3> QED BY <2>1, FiniteMax
  <2>3. QED
    BY <2>2
<1>4. \A q \in S \ {l} : Less(q, l)
  BY <1>1, <1>2, <1>3 DEF Less, Distinguished
<1>5. QED
  BY <1>3, <1>4 DEF Latest

\* The next revision number is a number.
LEMMA NextNumberType ==
    ASSUME NEW S, Distinguished(S) PROVE NextRevisionNumber(S) \in Nat
BY LatestIsLast DEF NextRevisionNumber, Distinguished, RevisionObject

\* A new revision is younger than the ones there are.
LEMMA BornIsNew ==
    ASSUME NEW S, Distinguished(S)
    PROVE  Born(S) \in Nat /\ \A r \in S : r.born < Born(S)
<1> DEFINE B == {0} \cup {r.born : r \in S}
<1>1. \A r \in S : r.born \in Nat
  BY DEF Distinguished, RevisionObject
<1>2. \E b \in B : \A c \in B : b >= c
  <2>1. CASE S = {}
    BY <2>1
  <2>2. CASE S # {}
    <3> DEFINE f == [r \in S |-> r.born]
    <3>1. f \in [S -> Nat]
      BY <1>1
    <3>2. PICK m \in S : \A q \in S : f[q] <= f[m]
      <4> HIDE DEF f
      <4> QED BY <2>2, <3>1, FiniteMax DEF Distinguished
    <3>3. \A c \in B : m.born >= c
      BY <1>1, <3>2
    <3>4. QED
      BY <3>3
  <2>3. QED
    BY <2>1, <2>2
<1>3. Max(B) \in B /\ \A c \in B : Max(B) >= c
  <2> HIDE DEF B
  <2> QED BY <1>2 DEF Max
<1>4. B \subseteq Nat
  BY <1>1
<1>5. Born(S) = 1 + Max(B)
  BY DEF Born
<1>6. Max(B) \in Nat
  <2> HIDE DEF B
  <2> QED BY <1>3, <1>4
<1>7. ASSUME NEW r \in S PROVE r.born <= Max(B)
  <2>1. r.born \in B
    OBVIOUS
  <2> HIDE DEF B
  <2>2. Max(B) >= r.born
    BY <1>3, <2>1
  <2>3. QED
    BY <1>1, <1>6, <2>2
<1> HIDE DEF B
<1>8. QED
  BY <1>1, <1>5, <1>6, <1>7

-----------------------------------------------------------------------------
(* The inductive form of SetTypeOK.  Beyond the types: a stored template   *)
(* is one defaulting made, so that its hash is a revision name; a          *)
(* reconcile has a RunnerSet and, from MakeHistory on, a revision; and the *)
(* revisions are told apart by name and by creation time, so that the last *)
(* of a sorted list is defined.                                            *)

StoredSet == {s \in SetObject : s.spec.template \in StoredTemplates} \cup {NoSet}

ServerTyped ==
    /\ set \in StoredSet
    /\ runners \in [Names -> RunnerCopy]
    /\ owed \in BOOLEAN
    /\ Distinguished(revs)

CachesTyped ==
    /\ setCache \in StoredSet
    /\ runnerCache \in [Names -> RunnerCopy]
    /\ Distinguished(revCache)

QueueTyped == queued \in BOOLEAN /\ events \in 0..MaxEvents

\* MakeHistory has found or made its revision, and not yet returned an error
HasRevision == {"bump", "create", "find", "examine", "createRunner",
                "deleteRunner", "finish", "truncate"}

\* Runners by name
Listed == UNION {[D -> RunnerCopy] : D \in SUBSET Names}

RevisionTyped ==
    /\ Distinguished(listed)
    /\ rev \in RevisionObject \cup {NoRevision}
    /\ pc \in HasRevision => rev \in RevisionObject
    /\ pc = "bump" => \E r \in listed : r.name = rev.name /\ r.born = rev.born

WorkerTyped ==
    /\ pc \in Steps
    /\ before \in StoredSet /\ (pc # "idle" => before # NoSet)
    /\ st \in SetStatus
    /\ RevisionTyped
    /\ todo \in Listed /\ kept \in Listed
    /\ left \in Nat /\ (pc = "createRunner" => left > 0)
    /\ victims \subseteq Names /\ drop \subseteq RevName
    /\ requeue \in BOOLEAN

SetInv == ServerTyped /\ CachesTyped /\ QueueTyped /\ WorkerTyped

\* The inductive invariant contains the types.
LEMMA SetInvTypes == SetInv => SetTypeOK
<1>1. StoredSet \subseteq SetObject \cup {NoSet}
  BY DEF StoredSet
<1>2. \A f \in Listed : DOMAIN f \subseteq Names
  BY DEF Listed
<1>3. QED
  BY <1>1, <1>2 DEF SetInv, ServerTyped, CachesTyped, QueueTyped, WorkerTyped,
     RevisionTyped, Distinguished, SetTypeOK

-----------------------------------------------------------------------------
(* The values the actions build.                                           *)

\* A template with its label, under any eviction policy, can be stored.
LEMMA StoredTemplatesType ==
    /\ StoredTemplates \subseteq Template
    /\ \A t \in Templates : [t EXCEPT !.labels = @ \cup {"runnerset"}] \in StoredTemplates
    /\ \A t \in StoredTemplates :
         /\ [t EXCEPT !.labels = @ \cup {"runnerset"}] = t
         /\ \A e \in EvictionPolicies : [t EXCEPT !.eviction = e] \in StoredTemplates
<1>1. ASSUME NEW t \in Templates, NEW e \in EvictionPolicies
      PROVE  /\ Stored(t, e) \in Template /\ t.eviction \in EvictionPolicies
             /\ [t EXCEPT !.labels = @ \cup {"runnerset"}] = Stored(t, t.eviction)
  BY SetConstantsAssumption DEF Template, Stored
<1>2. ASSUME NEW t \in StoredTemplates
      PROVE  /\ [t EXCEPT !.labels = @ \cup {"runnerset"}] = t
             /\ \A e \in EvictionPolicies : [t EXCEPT !.eviction = e] \in StoredTemplates
  <2>1. PICK u \in Templates, e \in EvictionPolicies : t = Stored(u, e)
    BY DEF StoredTemplates
  <2>2. u \in Template
    BY SetConstantsAssumption
  <2>3. t \in Template /\ t.labels = u.labels \cup {"runnerset"}
    BY <2>1, <2>2 DEF Template, Stored
  <2>4. [t EXCEPT !.labels = @ \cup {"runnerset"}] = t
    BY <2>3 DEF Template
  <2>5. ASSUME NEW d \in EvictionPolicies
        PROVE  [t EXCEPT !.eviction = d] \in StoredTemplates
    <3>1. [t EXCEPT !.eviction = d] = Stored(u, d)
      BY <2>1, <2>2 DEF Template, Stored
    <3>2. QED
      BY <3>1 DEF StoredTemplates
  <2>6. QED
    BY <2>4, <2>5
<1>3. ASSUME NEW t \in StoredTemplates PROVE t \in Template
  <2>1. PICK u \in Templates, e \in EvictionPolicies : t = Stored(u, e)
    BY DEF StoredTemplates
  <2>2. QED
    BY <1>1, <2>1
<1>4. ASSUME NEW t \in Templates
      PROVE  [t EXCEPT !.labels = @ \cup {"runnerset"}] \in StoredTemplates
  <2>1. t.eviction \in EvictionPolicies
    BY <1>1 DEF EvictionPolicies
  <2>2. Stored(t, t.eviction) \in StoredTemplates
    BY <2>1 DEF StoredTemplates
  <2>3. QED
    BY <1>1, <2>1, <2>2
<1>5. QED
  BY <1>2, <1>3, <1>4

\* Specs that may be stored.
StoredSpec == {s \in Spec1alpha2 : s.template \in StoredTemplates}

\* Defaulting what a user writes gives a spec that may be stored.
LEMMA DefaultType ==
    /\ \A s \in Spec1alpha2 : s.template \in Templates => Default(s) \in StoredSpec
    /\ \A s \in StoredSpec : Default(s) = s
<1>1. ASSUME NEW s \in Spec1alpha2, s.template \in Templates
      PROVE  Default(s) \in StoredSpec
  <2>1. [s.template EXCEPT !.labels = @ \cup {"runnerset"}] \in StoredTemplates
    BY <1>1, StoredTemplatesType
  <2>2. Default(s) = [s EXCEPT !.template =
                        [s.template EXCEPT !.labels = @ \cup {"runnerset"}]]
    BY DEF Default
  <2>3. [s.template EXCEPT !.labels = @ \cup {"runnerset"}] \in Template
    BY <2>1, StoredTemplatesType
  <2> DEFINE t == [s.template EXCEPT !.labels = @ \cup {"runnerset"}]
  <2> HIDE DEF t
  <2>4. [s EXCEPT !.template = t] \in StoredSpec
    BY <2>1, <2>3 DEF StoredSpec, Spec1alpha2, t
  <2>5. QED
    BY <2>2, <2>4 DEF t
<1>2. ASSUME NEW s \in StoredSpec PROVE Default(s) = s
  <2>1. [s.template EXCEPT !.labels = @ \cup {"runnerset"}] = s.template
    BY StoredTemplatesType DEF StoredSpec
  <2>2. Default(s) = [s EXCEPT !.template =
                        [s.template EXCEPT !.labels = @ \cup {"runnerset"}]]
    BY DEF Default
  <2>3. [s EXCEPT !.template = s.template] = s
    BY DEF StoredSpec, Spec1alpha2
  <2>4. QED
    BY <2>1, <2>2, <2>3
<1>3. QED
  BY <1>1, <1>2

\* A v1alpha1 client leaves a spec that may be stored.
LEMMA ConversionType ==
    ASSUME NEW s \in StoredSpec, NEW n \in Nat
    PROVE  ScaledByV1alpha1(s, n) \in StoredSpec
<1> DEFINE t == [s.template EXCEPT !.eviction = DefaultEviction]
<1>1. s.template \in StoredTemplates /\ s.template \in Template
  BY StoredTemplatesType DEF StoredSpec
<1>2. t \in StoredTemplates /\ t \in Template
  BY <1>1, StoredTemplatesType DEF DefaultEviction, EvictionPolicies
<1>3. [version |-> s.template.version, labels |-> s.template.labels,
       url |-> s.template.url, eviction |-> DefaultEviction] = t
  BY <1>1 DEF Template
<1> HIDE DEF t
<1>4. PICK c : c = [ConvertFrom(s) EXCEPT !.runners = n]
  OBVIOUS
<1>5. c.runners = n /\ c.template = ConvertTemplateFrom(s.template)
  BY <1>4 DEF ConvertFrom
<1>6. ConvertTemplateTo(c.template) =
        [version |-> s.template.version, labels |-> s.template.labels,
         url |-> s.template.url, eviction |-> ""]
  BY <1>5 DEF ConvertTemplateTo, ConvertTemplateFrom
<1>7. ConvertTo(c) = [runners |-> n, template |-> ConvertTemplateTo(c.template),
                      strategy |-> "", limit |-> "nil"]
  BY <1>5 DEF ConvertTo
<1>8. Defaulted(ConvertTo(c)) =
        [runners |-> n, template |-> t, strategy |-> DefaultStrategy,
         limit |-> DefaultLimit]
  <2>1. PICK u, w : u = ConvertTemplateTo(c.template) /\ w = ConvertTo(c)
    OBVIOUS
  <2>2. w = [runners |-> n, template |-> u, strategy |-> "", limit |-> "nil"]
    BY <1>7, <2>1, Zenon
  <2>3. u = [version |-> s.template.version, labels |-> s.template.labels,
             url |-> s.template.url, eviction |-> ""]
    BY <1>6, <2>1, Zenon
  <2>4. w.runners = n /\ w.strategy = "" /\ w.limit = "nil" /\ w.template = u
    BY <2>2
  <2>5. PICK r : r = [u EXCEPT !.eviction = IF @ = "" THEN DefaultEviction ELSE @]
    OBVIOUS
  <2>6. r \in [version : {s.template.version}, labels : {s.template.labels},
               url : {s.template.url}, eviction : {DefaultEviction}]
    BY <2>3, <2>5
  <2>7. r = t
    BY <1>3, <2>6
  <2>8. Defaulted(w) = [runners |-> n, template |-> r, strategy |-> DefaultStrategy,
                        limit |-> DefaultLimit]
    BY <2>4, <2>5, Zenon DEF Defaulted
  <2>9. QED
    BY <2>1, <2>7, <2>8, Zenon
<1>9. ScaledByV1alpha1(s, n) = Defaulted(ConvertTo(c))
  BY <1>4 DEF ScaledByV1alpha1
<1>10. QED
  BY <1>2, <1>8, <1>9 DEF StoredSpec, Spec1alpha2, DefaultStrategy, DefaultLimit

\* The hash of a stored template is a revision name.
LEMMA HashType ==
    ASSUME NEW t \in StoredTemplates, NEW c \in CollisionCount PROVE Hash(t, c) \in RevName
BY DEF RevName

\* Counting an event keeps to the bound.
LEMMA HappensType ==
    ASSUME QueueTyped, NEW k, Happens(k) PROVE events' \in 0..MaxEvents
BY SetConstantsAssumption DEF QueueTyped, Happens

\* So does reading a cache.
LEMMA ReadsType ==
    ASSUME QueueTyped, NEW c, NEW t, Reads(c, t) PROVE events' \in 0..MaxEvents
BY HappensType DEF QueueTyped, Reads

\* What has been listed, less one Runner or with one more, is listed by name.
LEMMA ListedType ==
    ASSUME NEW f \in Listed, NEW n \in Names, NEW r \in RunnerCopy
    PROVE  /\ Without(f, n) \in Listed /\ With(f, n, r) \in Listed
           /\ [f EXCEPT ![n] = r] \in Listed
           /\ DOMAIN f \subseteq Names /\ f \in [DOMAIN f -> RunnerCopy]
           /\ IsFiniteSet(DOMAIN f) /\ Cardinality(DOMAIN f) \in Nat
<1>1. PICK D \in SUBSET Names : f \in [D -> RunnerCopy]
  BY DEF Listed
<1>2. DOMAIN f = D
  BY <1>1
<1>3. ASSUME NEW E \in SUBSET Names, NEW g \in [E -> RunnerCopy] PROVE g \in Listed
  BY <1>3 DEF Listed
<1>4. Without(f, n) \in [D \ {n} -> RunnerCopy]
  BY <1>1, <1>2 DEF Without
<1>5. With(f, n, r) \in [D \cup {n} -> RunnerCopy]
  BY <1>1, <1>2 DEF With
<1>6. [f EXCEPT ![n] = r] \in [D -> RunnerCopy]
  BY <1>1
<1>7. IsFiniteSet(D) /\ Cardinality(D) \in Nat
  BY SetConstantsAssumption, FS_Subset, FS_CardinalityType
<1>8. QED
  BY <1>1, <1>2, <1>3, <1>4, <1>5, <1>6, <1>7

\* A selection of the cached Runners is listed by name.
LEMMA SelectionType ==
    ASSUME NEW f \in [Names -> RunnerCopy], NEW D \in SUBSET Names
    PROVE  [n \in D |-> f[n]] \in Listed
<1>1. [n \in D |-> f[n]] \in [D -> RunnerCopy]
  OBVIOUS
<1>2. QED
  BY <1>1 DEF Listed

\* Nothing listed is a list, and the absence of a Runner is a copy of one.
LEMMA EmptyTypes ==
    /\ NoRunner \in RunnerCopy /\ NoneListed \in Listed
    /\ NewStatus \in SetStatus /\ NoSet \in StoredSet /\ NoSet.alive = FALSE
    /\ Distinguished({})
<1>1. NoRunner \in RunnerCopy
  BY DEF NoRunner, RunnerCopy, Phases
<1>2. NoneListed \in [{} -> RunnerCopy]
  BY DEF NoneListed
<1>3. NoneListed \in Listed
  BY <1>2 DEF Listed
<1>4. NewStatus \in SetStatus
  BY DEF NewStatus, SetStatus, CollisionCount
<1>5. QED
  BY <1>1, <1>3, <1>4, FS_EmptySet DEF StoredSet, NoSet, Distinguished

\* Edits of a set keep it one that may be stored.
LEMMA StoredSetType ==
    ASSUME NEW s \in StoredSet, s.alive
    PROVE  /\ s \in SetObject /\ s.spec \in StoredSpec /\ s.status \in SetStatus
           /\ [s EXCEPT !.deleting = TRUE] \in StoredSet
           /\ \A p \in StoredSpec : [s EXCEPT !.spec = p] \in StoredSet
           /\ \A u \in SetStatus : [s EXCEPT !.status = u] \in StoredSet
<1>1. s \in SetObject /\ s.spec.template \in StoredTemplates
  BY EmptyTypes DEF StoredSet
<1>2. s.spec \in StoredSpec /\ s.status \in SetStatus
  BY <1>1 DEF SetObject, StoredSpec
<1>3. /\ [s EXCEPT !.deleting = TRUE] \in StoredSet
      /\ \A p \in StoredSpec : [s EXCEPT !.spec = p] \in StoredSet
      /\ \A u \in SetStatus : [s EXCEPT !.status = u] \in StoredSet
  BY <1>1 DEF SetObject, StoredSet, StoredSpec
<1>4. QED
  BY <1>1, <1>2, <1>3

\* A set that is not absent is a set.
LEMMA PresentSet ==
    ASSUME NEW s \in StoredSet, s # NoSet
    PROVE  s \in SetObject /\ s.spec \in StoredSpec /\ s.status \in SetStatus
BY DEF StoredSet, SetObject, StoredSpec

\* Writing a Runner keeps the Runners' type.
LEMMA WriteRunnerType ==
    ASSUME ServerTyped, NEW n \in Names, NEW r \in RunnerCopy, WriteRunner(n, r)
    PROVE  runners' \in [Names -> RunnerCopy] /\ owed' \in BOOLEAN
BY DEF ServerTyped, WriteRunner

\* So does its deletion.
LEMMA DeletedType ==
    ASSUME ServerTyped, NEW n \in Names, Deleted(n)
    PROVE  runners' \in [Names -> RunnerCopy] /\ owed' \in BOOLEAN
<1>1. [runners[n] EXCEPT !.deleting = TRUE] \in RunnerCopy
  BY DEF ServerTyped, RunnerCopy
<1>2. QED
  BY <1>1, WriteRunnerType, EmptyTypes DEF Deleted, ServerTyped

-----------------------------------------------------------------------------
(* SetInv is inductive: one lemma per step of the reconcile.               *)

\* A set that has just been created has its type.
LEMMA InitSetInv == Init => SetInv
<1> SUFFICES ASSUME Init PROVE SetInv
  OBVIOUS
<1>1. PICK t \in Templates, n \in Counts, y \in Strategies, l \in Limits :
        set = NewSet(Default([runners |-> n, template |-> t, strategy |-> y, limit |-> l]))
  BY DEF Init
<1>2. [runners |-> n, template |-> t, strategy |-> y, limit |-> l] \in Spec1alpha2
  BY SetConstantsAssumption DEF Spec1alpha2
<1>3. PICK s \in StoredSpec : set = NewSet(s)
  BY <1>1, <1>2, DefaultType
<1>4. set \in StoredSet
  <2>1. NewSet(s) \in SetObject
    BY EmptyTypes DEF NewSet, StoredSpec, SetObject
  <2>2. NewSet(s).spec = s
    BY DEF NewSet
  <2>3. QED
    BY <1>3, <2>1, <2>2 DEF StoredSet, StoredSpec
<1>5. ServerTyped /\ CachesTyped
  BY <1>4, EmptyTypes DEF Init, ServerTyped, CachesTyped
<1>6. QueueTyped
  <2>1. events = 0 /\ queued = FALSE
    BY DEF Init
  <2>2. 0 \in 0..MaxEvents
    BY SetConstantsAssumption
  <2>3. QED
    BY <2>1, <2>2 DEF QueueTyped
<1>7. WorkerTyped
  BY EmptyTypes DEF Init, WorkerTyped, RevisionTyped, Steps, HasRevision
<1>8. QED
  BY <1>5, <1>6, <1>7 DEF SetInv

\* Reading the set starts a reconcile of one that exists.
LEMMA ReconcileInv == ASSUME SetInv, Reconcile PROVE SetInv'
<1>1. ServerTyped' /\ CachesTyped'
  BY DEF SetInv, ServerTyped, CachesTyped, Reconcile, server, caches
<1>2. QueueTyped'
  BY ReadsType DEF SetInv, QueueTyped, Reconcile
<1>3. WorkerTyped'
  <2>1. CASE UNCHANGED <<pc, before, st>>
    BY <2>1 DEF Reconcile, SetInv, WorkerTyped, RevisionTyped
  <2>2. CASE setCache.alive /\ before' = setCache /\ st' = setCache.status /\ pc' = "history"
    <3>1. /\ setCache \in StoredSet /\ setCache # NoSet /\ setCache.status \in SetStatus
      BY <2>2, StoredSetType, EmptyTypes DEF SetInv, CachesTyped
    <3>2. QED
      BY <2>2, <3>1 DEF Reconcile, SetInv, WorkerTyped, RevisionTyped, Steps, HasRevision
  <2>3. QED
    BY <2>1, <2>2 DEF Reconcile
<1>4. QED
  BY <1>1, <1>2, <1>3 DEF SetInv

\* The end of MakeHistory names the revision in the status.
LEMMA SettleType ==
    ASSUME WorkerTyped, NEW name \in RevName, NEW R, Settle(name, R)
    PROVE  st' \in SetStatus /\ pc' \in {"panic", "find"} /\ requeue' = requeue
<1>1. [st EXCEPT !.current = IF @ = NoName THEN name ELSE @, !.next = name,
                 !.collisions = "0"] \in SetStatus
  BY DEF WorkerTyped, SetStatus, CollisionCount
<1>2. QED
  BY <1>1 DEF Settle, Goto, WorkerTyped

\* What ListRevision answers is told apart like the cache it came from.
LEMMA ListRevisionType ==
    ASSUME NEW S, Distinguished(S), NEW T \in SUBSET S PROVE Distinguished(T)
BY FS_Subset DEF Distinguished

\* MakeHistory lists, and finds a revision or makes one.
LEMMA MakeHistoryInv == ASSUME SetInv, MakeHistory PROVE SetInv'
<1>1. ServerTyped' /\ CachesTyped'
  BY DEF SetInv, ServerTyped, CachesTyped, MakeHistory, server, caches
<1>2. QueueTyped'
  BY ReadsType DEF SetInv, QueueTyped, MakeHistory
<1>3. WorkerTyped'
  <2> DEFINE R == ListRevision
             next == NextRevision(before.spec, st.collisions, R)
             equal == FindEqual(R, next)
  <2>1. Distinguished(R)
    BY ListRevisionType DEF SetInv, CachesTyped, ListRevision
  <2>2. equal \subseteq R /\ Distinguished(equal)
    BY <2>1, ListRevisionType DEF FindEqual
  <2>3. before.spec.template \in StoredTemplates /\ st.collisions \in CollisionCount
    BY PresentSet DEF MakeHistory, SetInv, WorkerTyped, StoredSpec, SetStatus
  <2>4. next \in RevisionObject
    <3>1. Hash(before.spec.template, st.collisions) \in RevName
      BY <2>3, HashType
    <3>2. before.spec.template \in Template
      BY <2>3, StoredTemplatesType
    <3>3. NextRevisionNumber(R) \in Nat
      BY <2>1, NextNumberType
    <3>4. QED
      BY <3>1, <3>2, <3>3 DEF NextRevision, ObjectPatch, RevisionObject
  <2>5. /\ listed' = R /\ UNCHANGED <<before, todo, kept, left, victims, drop>>
        /\ pc = "history"
    BY DEF MakeHistory
  <2>6. equal # {} => Latest(equal) \in equal /\ Latest(R) \in R /\ R # {}
    BY <2>1, <2>2, LatestIsLast
  <2>7. CASE equal # {} /\ rev' = Latest(R) /\ Settle(Latest(R).name, R)
    <3>1. Latest(R) \in RevisionObject /\ Latest(R).name \in RevName
      BY <2>1, <2>6, <2>7 DEF Distinguished, RevisionObject
    <3>2. st' \in SetStatus /\ pc' \in {"panic", "find"} /\ requeue' = requeue
      BY <2>7, <3>1, SettleType DEF SetInv
    <3> HIDE DEF R, equal, next
    <3>3. QED
      BY <2>1, <2>5, <2>7, <3>1, <3>2
      DEF SetInv, WorkerTyped, RevisionTyped, Steps, HasRevision
  <2>8. CASE /\ equal # {} /\ rev' = [Latest(equal) EXCEPT !.number = next.number]
             /\ Goto("bump") /\ UNCHANGED st
    <3>1. next.number \in Nat
      BY <2>4 DEF RevisionObject
    <3>2. Latest(equal) \in R /\ Latest(equal) \in RevisionObject
      BY <2>1, <2>2, <2>6, <2>8 DEF Distinguished
    <3> HIDE DEF R, equal, next
    <3>3. /\ rev' \in RevisionObject /\ rev'.name = Latest(equal).name
          /\ rev'.born = Latest(equal).born
      BY <2>8, <3>1, <3>2 DEF RevisionObject
    <3>4. QED
      BY <2>1, <2>5, <2>8, <3>2, <3>3
      DEF SetInv, WorkerTyped, RevisionTyped, Steps, HasRevision, Goto
  <2>9. CASE rev' = next /\ Goto("create") /\ UNCHANGED st
    <3> HIDE DEF R, equal, next
    <3>1. QED
      BY <2>1, <2>4, <2>5, <2>9
      DEF SetInv, WorkerTyped, RevisionTyped, Steps, HasRevision, Goto
  <2>10. QED
    BY <2>7, <2>8, <2>9 DEF MakeHistory
<1>4. QED
  BY <1>1, <1>2, <1>3 DEF SetInv

\* Raising a number replaces a revision by one of the same name and age.
LEMMA BumpRevisionInv == ASSUME SetInv, BumpRevision PROVE SetInv'
<1> DEFINE onServer == {r \in revs : r.name = rev.name}
<1>1. CachesTyped' /\ queued' = queued
  BY DEF SetInv, CachesTyped, BumpRevision, caches
<1>2. /\ pc = "bump" /\ rev \in RevisionObject
      /\ UNCHANGED <<before, listed, rev, todo, kept, left, victims, drop>>
  BY DEF BumpRevision, SetInv, WorkerTyped, RevisionTyped, HasRevision
<1>3. rev.name \in RevName
  BY <1>2 DEF RevisionObject
<1>4. CASE /\ onServer # {}
           /\ revs' = IF onServer \subseteq listed THEN (revs \ onServer) \cup {rev} ELSE revs
           /\ Settle(rev.name, listed)
           /\ UNCHANGED <<set, runners, owed, events>>
  <2>1. Distinguished(revs')
    <3>1. CASE onServer \subseteq listed
      <4>1. PICK r \in listed : r.name = rev.name /\ r.born = rev.born
        BY <1>2 DEF SetInv, WorkerTyped, RevisionTyped
      <4>2. PICK o \in onServer : TRUE
        BY <1>4
      <4>3. o \in revs /\ o.name = rev.name /\ o.born = rev.born
        BY <3>1, <4>1, <4>2 DEF SetInv, WorkerTyped, RevisionTyped, Distinguished
      <4>4. \A q \in revs \ onServer : q.name # rev.name /\ q.born # rev.born
        BY <4>3 DEF SetInv, ServerTyped, Distinguished
      <4>5. IsFiniteSet((revs \ onServer) \cup {rev})
        BY FS_AddElement, FS_Subset DEF SetInv, ServerTyped, Distinguished
      <4>6. revs' = (revs \ onServer) \cup {rev}
        BY <1>4, <3>1
      <4>7. QED
        BY <1>2, <4>4, <4>5, <4>6 DEF SetInv, ServerTyped, Distinguished
    <3>2. CASE ~(onServer \subseteq listed)
      BY <1>4, <3>2 DEF SetInv, ServerTyped
    <3>3. QED
      BY <3>1, <3>2
  <2>2. ServerTyped' /\ QueueTyped'
    BY <1>1, <1>4, <2>1 DEF SetInv, ServerTyped, QueueTyped
  <2>3. st' \in SetStatus /\ pc' \in {"panic", "find"} /\ requeue' = requeue
    BY <1>3, <1>4, SettleType DEF SetInv
  <2>4. WorkerTyped'
    BY <1>2, <2>3 DEF SetInv, WorkerTyped, RevisionTyped, Steps, HasRevision
  <2>5. QED
    BY <1>1, <2>2, <2>4 DEF SetInv
<1>5. CASE (UNCHANGED <<server, events>> \/ CallFails) /\ ReturnError /\ UNCHANGED st
  <2>1. ServerTyped'
    BY <1>5 DEF SetInv, ServerTyped, CallFails, server
  <2>2. QueueTyped'
    BY <1>1, <1>5, HappensType DEF SetInv, QueueTyped, CallFails
  <2>3. WorkerTyped'
    BY <1>2, <1>5 DEF SetInv, WorkerTyped, RevisionTyped, Steps, HasRevision, ReturnError
  <2>4. QED
    BY <1>1, <2>1, <2>2, <2>3 DEF SetInv
<1>6. QED
  BY <1>4, <1>5 DEF BumpRevision

\* A revision is created under a free name, and is younger than the others.
LEMMA CreateRevisionInv == ASSUME SetInv, CreateRevision PROVE SetInv'
<1> DEFINE onServer == {r \in revs : r.name = rev.name}
<1>1. CachesTyped' /\ queued' = queued
  BY DEF SetInv, CachesTyped, CreateRevision, caches
<1>2. /\ pc = "create" /\ rev \in RevisionObject
      /\ UNCHANGED <<before, listed, rev, todo, kept, left, victims, drop>>
  BY DEF CreateRevision, SetInv, WorkerTyped, RevisionTyped, HasRevision
<1>3. rev.name \in RevName
  BY <1>2 DEF RevisionObject
<1>4. ASSUME Settle(rev.name, listed) PROVE WorkerTyped'
  <2>1. st' \in SetStatus /\ pc' \in {"panic", "find"} /\ requeue' = requeue
    BY <1>3, <1>4, SettleType DEF SetInv
  <2>2. QED
    BY <1>2, <2>1 DEF SetInv, WorkerTyped, RevisionTyped, Steps, HasRevision
<1>5. ASSUME ReturnError, UNCHANGED st PROVE WorkerTyped'
  BY <1>2, <1>5 DEF SetInv, WorkerTyped, RevisionTyped, Steps, HasRevision, ReturnError
<1>6. CASE /\ onServer = {} /\ revs' = revs \cup {[rev EXCEPT !.born = Born(revs)]}
           /\ Settle(rev.name, listed) /\ UNCHANGED <<set, runners, owed, events>>
  <2>1. PICK new : new = [rev EXCEPT !.born = Born(revs)]
    OBVIOUS
  <2>2. Distinguished(revs)
    BY DEF SetInv, ServerTyped
  <2>3. /\ new \in RevisionObject /\ new.name = rev.name /\ new.born = Born(revs)
    BY <1>2, <2>1, <2>2, BornIsNew DEF RevisionObject
  <2>4. \A r \in revs : r.name # new.name /\ r.born # new.born
    BY <1>6, <2>2, <2>3, BornIsNew DEF Distinguished, RevisionObject
  <2>5. revs' = revs \cup {new} /\ IsFiniteSet(revs \cup {new})
    BY <1>6, <2>1, <2>2, FS_AddElement DEF Distinguished
  <2>6. Distinguished(revs')
    BY <2>2, <2>3, <2>4, <2>5 DEF Distinguished
  <2>7. ServerTyped' /\ QueueTyped'
    BY <1>1, <1>6, <2>6 DEF SetInv, ServerTyped, QueueTyped
  <2>8. QED
    BY <1>1, <1>4, <1>6, <2>7 DEF SetInv
<1>7. CASE /\ Reads(revCache, revs) /\ UNCHANGED server
           /\ \/ Settle(rev.name, listed)
              \/ UNCHANGED <<pc, requeue, st>>
              \/ ReturnError /\ UNCHANGED st
  <2>1. ServerTyped' /\ QueueTyped'
    BY <1>1, <1>7, ReadsType DEF SetInv, ServerTyped, QueueTyped, server
  <2>2. ASSUME UNCHANGED <<pc, requeue, st>> PROVE WorkerTyped'
    BY <1>2, <2>2 DEF SetInv, WorkerTyped, RevisionTyped, HasRevision
  <2>3. QED
    BY <1>1, <1>4, <1>5, <1>7, <2>1, <2>2 DEF SetInv
<1>8. CASE CallFails /\ ReturnError /\ UNCHANGED st
  <2>1. ServerTyped' /\ QueueTyped'
    BY <1>1, <1>8, HappensType DEF SetInv, ServerTyped, QueueTyped, server, CallFails
  <2>2. QED
    BY <1>1, <1>5, <1>8, <2>1 DEF SetInv
<1>9. QED
  BY <1>6, <1>7, <1>8 DEF CreateRevision

\* Runners are listed from the cache, by name.
LEMMA FindRunnersInv == ASSUME SetInv, FindRunners PROVE SetInv'
<1>1. ServerTyped' /\ CachesTyped' /\ QueueTyped'
  BY ReadsType DEF SetInv, ServerTyped, CachesTyped, QueueTyped, FindRunners, server, caches
<1>2. kept' \in Listed /\ todo' \in Listed
  BY SelectionType DEF SetInv, CachesTyped, FindRunners
<1>3. /\ pc = "find" /\ pc' = "examine" /\ listed' = {}
      /\ UNCHANGED <<before, st, rev, left, victims, drop, requeue>>
  BY DEF FindRunners, Goto
<1>4. WorkerTyped'
  BY <1>2, <1>3, EmptyTypes DEF SetInv, WorkerTyped, RevisionTyped, Steps, HasRevision
<1>5. QED
  BY <1>1, <1>4 DEF SetInv

\* A Runner without owner is adopted, and kept or discarded.
LEMMA AdoptRunnerInv ==
    ASSUME SetInv, NEW n \in Names, AdoptRunner(n) PROVE SetInv'
<1>1. CachesTyped' /\ queued' = queued
  BY DEF SetInv, CachesTyped, AdoptRunner, caches
<1>2. /\ UNCHANGED <<before, st, listed, rev, left, victims, drop, pc, requeue>>
      /\ n \in DOMAIN todo
  BY DEF AdoptRunner
<1>3. ASSUME todo' \in Listed, kept' \in Listed PROVE WorkerTyped'
  BY <1>2, <1>3 DEF SetInv, WorkerTyped, RevisionTyped
<1>4. CASE /\ WriteRunner(n, [runners[n] EXCEPT !.owner = "us"])
           /\ \/ todo' = [todo EXCEPT ![n] = runners'[n]] /\ UNCHANGED kept
              \/ todo' = Without(todo, n) /\ kept' = With(kept, n, runners'[n])
           /\ UNCHANGED <<set, revs, events>>
  <2>1. [runners[n] EXCEPT !.owner = "us"] \in RunnerCopy
    BY DEF SetInv, ServerTyped, RunnerCopy
  <2>2. runners' \in [Names -> RunnerCopy] /\ owed' \in BOOLEAN
    BY <1>4, <2>1, WriteRunnerType DEF SetInv
  <2>3. ServerTyped' /\ QueueTyped'
    BY <1>1, <1>4, <2>2 DEF SetInv, ServerTyped, QueueTyped
  <2>4. todo' \in Listed /\ kept' \in Listed
    <3>1. PICK r \in RunnerCopy : r = runners'[n]
      BY <2>2
    <3>2. todo \in Listed /\ kept \in Listed
      BY DEF SetInv, WorkerTyped
    <3>3. /\ Without(todo, n) \in Listed /\ With(kept, n, r) \in Listed
          /\ [todo EXCEPT ![n] = r] \in Listed
      BY <3>2, ListedType
    <3>4. QED
      BY <1>4, <3>1, <3>2, <3>3
  <2>5. QED
    BY <1>1, <1>3, <2>3, <2>4 DEF SetInv
<1>5. CASE (UNCHANGED <<server, events>> \/ CallFails)
           /\ todo' = Without(todo, n) /\ UNCHANGED kept
  <2>1. ServerTyped' /\ QueueTyped'
    BY <1>1, <1>5, HappensType DEF SetInv, ServerTyped, QueueTyped, server, CallFails
  <2>2. todo' \in Listed /\ kept' \in Listed
    BY <1>5, ListedType, EmptyTypes DEF SetInv, WorkerTyped
  <2>3. QED
    BY <1>1, <1>3, <2>1, <2>2 DEF SetInv
<1>6. QED
  BY <1>4, <1>5 DEF AdoptRunner

\* A Runner that must go is deleted.
LEMMA DiscardRunnerInv ==
    ASSUME SetInv, NEW n \in Names, DiscardRunner(n) PROVE SetInv'
<1>1. CachesTyped' /\ queued' = queued
  BY DEF SetInv, CachesTyped, DiscardRunner, caches
<1>2. ServerTyped' /\ QueueTyped'
  <2>1. CASE Deleted(n) /\ UNCHANGED <<set, revs, events>>
    BY <1>1, <2>1, DeletedType DEF SetInv, ServerTyped, QueueTyped
  <2>2. CASE CallFails
    BY <1>1, <2>2, HappensType DEF SetInv, ServerTyped, QueueTyped, server, CallFails
  <2>3. QED
    BY <2>1, <2>2 DEF DiscardRunner
<1>3. todo' \in Listed
  BY ListedType, EmptyTypes DEF SetInv, WorkerTyped, DiscardRunner
<1>4. WorkerTyped'
  BY <1>3 DEF SetInv, WorkerTyped, RevisionTyped, DiscardRunner
<1>5. QED
  BY <1>1, <1>2, <1>4 DEF SetInv

\* The Runners of a phase can be counted.
LEMMA InPhaseType ==
    ASSUME NEW f \in Listed, NEW p
    PROVE  InPhase(f, p) \in Nat /\ InPhase(f, p) <= Cardinality(DOMAIN f)
<1>1. IsFiniteSet(DOMAIN f) /\ Cardinality(DOMAIN f) \in Nat
  BY ListedType, EmptyTypes, SetConstantsAssumption, FS_Subset, FS_CardinalityType DEF Listed
<1>2. {n \in DOMAIN f : f[n].phase = p} \in SUBSET DOMAIN f
  OBVIOUS
<1>3. QED
  BY <1>1, <1>2, FS_Subset, FS_CardinalityType DEF InPhase

\* Counting, and the decision to create or to delete.
LEMMA SyncRunnersInv == ASSUME SetInv, SyncRunners PROVE SetInv'
<1>1. ServerTyped' /\ CachesTyped' /\ QueueTyped'
  BY DEF SetInv, ServerTyped, CachesTyped, QueueTyped, SyncRunners, server, caches
<1>2. kept \in Listed /\ Cardinality(DOMAIN kept) \in Nat /\ DOMAIN kept \subseteq Names
  BY SetConstantsAssumption, FS_Subset, FS_CardinalityType DEF SetInv, WorkerTyped, Listed
<1>3. InPhase(kept, "Idle") \in Nat /\ InPhase(kept, "Active") \in Nat
  BY <1>2, InPhaseType
<1>4. CountedStatus \in SetStatus
  BY <1>2, <1>3 DEF CountedStatus, SetStatus, SetInv, WorkerTyped
<1>5. before.spec.runners \in Nat
  BY PresentSet DEF SyncRunners, SetInv, WorkerTyped, StoredSpec, Spec1alpha2
<1>6. /\ pc = "examine" /\ st' = CountedStatus
      /\ UNCHANGED <<before, listed, rev, todo, kept, drop>>
  BY DEF SyncRunners
<1> DEFINE have == Cardinality(DOMAIN kept)
           want == before.spec.runners
<1>7. CASE have < want /\ left' = ToCreate(want, have) /\ Goto("createRunner")
           /\ UNCHANGED victims
  <2>1. left' \in Nat /\ left' > 0
    BY <1>2, <1>5, <1>7 DEF ToCreate
  <2>2. WorkerTyped'
    BY <1>4, <1>6, <1>7, <2>1
    DEF SetInv, WorkerTyped, RevisionTyped, Steps, HasRevision, Goto
  <2>3. QED
    BY <1>1, <2>2 DEF SetInv
<1>8. CASE victims' \in ToDelete(kept, have - want) /\ Goto("deleteRunner")
           /\ UNCHANGED left
  <2>1. victims' \subseteq Names
    BY <1>2, <1>8 DEF ToDelete
  <2>2. WorkerTyped'
    BY <1>4, <1>6, <1>8, <2>1
    DEF SetInv, WorkerTyped, RevisionTyped, Steps, HasRevision, Goto
  <2>3. QED
    BY <1>1, <2>2 DEF SetInv
<1>9. CASE Goto("finish") /\ UNCHANGED <<left, victims>>
  <2>1. WorkerTyped'
    BY <1>4, <1>6, <1>9
    DEF SetInv, WorkerTyped, RevisionTyped, Steps, HasRevision, Goto
  <2>2. QED
    BY <1>1, <2>1 DEF SetInv
<1>10. QED
  BY <1>7, <1>8, <1>9 DEF SyncRunners

\* A loop stays where it is, goes on, or ends with the errors it met.
LEMMA LoopType ==
    ASSUME SetInv, NEW s, NEW d \in BOOLEAN, NEW f \in BOOLEAN, LoopTo(s, d, f)
    PROVE  requeue' \in BOOLEAN /\ pc' \in {pc, "patch", s} /\ (d => pc' \in {"patch", s})
BY DEF SetInv, WorkerTyped, LoopTo

\* A Runner made for the set is one.
LEMMA NewRunnerType ==
    ASSUME SetInv, pc = "createRunner" PROVE NewRunner \in RunnerCopy
<1>1. rev.name \in RevName
  BY DEF SetInv, WorkerTyped, RevisionTyped, HasRevision, RevisionObject
<1>2. Selects(before.spec.template) \in BOOLEAN
  BY DEF Selects
<1>3. QED
  BY <1>1, <1>2 DEF NewRunner, RunnerCopy, Phases

\* One Runner is created, or refused; the last one ends the loop.
LEMMA CreateRunnerInv == ASSUME SetInv, CreateRunner PROVE SetInv'
<1>1. CachesTyped' /\ queued' = queued
  BY DEF SetInv, CachesTyped, CreateRunner, caches
<1>2. ServerTyped' /\ QueueTyped'
  <2>1. ASSUME NEW n \in FreshNames, WriteRunner(n, NewRunner), UNCHANGED <<set, revs, events>>
        PROVE  ServerTyped' /\ QueueTyped'
    <3>1. n \in Names /\ NewRunner \in RunnerCopy
      BY NewRunnerType DEF CreateRunner, FreshNames
    <3>2. QED
      BY <1>1, <2>1, <3>1, WriteRunnerType DEF SetInv, ServerTyped, QueueTyped
  <2>2. ASSUME UNCHANGED <<server, events>> \/ CallFails PROVE ServerTyped' /\ QueueTyped'
    BY <1>1, <2>2, HappensType DEF SetInv, ServerTyped, QueueTyped, server, CallFails
  <2>3. QED
    BY <2>1, <2>2 DEF CreateRunner
<1>3. PICK f \in BOOLEAN : LoopTo("finish", left = 1, f)
  BY DEF CreateRunner
<1>4. /\ requeue' \in BOOLEAN /\ pc' \in {"createRunner", "patch", "finish"}
      /\ left = 1 => pc' \in {"patch", "finish"}
  <2>1. (left = 1) \in BOOLEAN
    OBVIOUS
  <2>2. QED
    BY <1>3, <2>1, LoopType DEF CreateRunner
<1>5. left' = left - 1 /\ left \in Nat /\ left > 0
  BY DEF CreateRunner, SetInv, WorkerTyped
<1>6. left' \in Nat /\ (pc' = "createRunner" => left' > 0)
  BY <1>4, <1>5
<1>7. /\ UNCHANGED <<before, st, listed, rev, todo, kept, victims, drop>>
      /\ pc = "createRunner"
  BY DEF CreateRunner
<1>8. WorkerTyped'
  BY <1>4, <1>6, <1>7 DEF SetInv, WorkerTyped, RevisionTyped, Steps, HasRevision
<1>9. QED
  BY <1>1, <1>2, <1>8 DEF SetInv

\* One Runner is deleted; the last one ends the loop.
LEMMA DeleteRunnerInv ==
    ASSUME SetInv, NEW n \in Names, DeleteRunner(n) PROVE SetInv'
<1>1. CachesTyped' /\ queued' = queued
  BY DEF SetInv, CachesTyped, DeleteRunner, caches
<1>2. ServerTyped' /\ QueueTyped'
  <2>1. CASE Deleted(n) /\ UNCHANGED <<set, revs, events>>
    BY <1>1, <2>1, DeletedType DEF SetInv, ServerTyped, QueueTyped
  <2>2. CASE CallFails
    BY <1>1, <2>2, HappensType DEF SetInv, ServerTyped, QueueTyped, server, CallFails
  <2>3. QED
    BY <2>1, <2>2 DEF DeleteRunner
<1>3. PICK f \in BOOLEAN : LoopTo("finish", victims = {n}, f)
  BY DEF DeleteRunner
<1>4. requeue' \in BOOLEAN /\ pc' \in {"deleteRunner", "patch", "finish"}
  <2>1. (victims = {n}) \in BOOLEAN
    OBVIOUS
  <2>2. QED
    BY <1>3, <2>1, LoopType DEF DeleteRunner
<1>5. /\ UNCHANGED <<before, st, listed, rev, todo, kept, left, drop>>
      /\ pc = "deleteRunner" /\ victims' \subseteq victims
  BY DEF DeleteRunner
<1>6. WorkerTyped'
  BY <1>4, <1>5 DEF SetInv, WorkerTyped, RevisionTyped, Steps, HasRevision
<1>7. QED
  BY <1>1, <1>2, <1>6 DEF SetInv

\* The current revision is settled, and the surplus of the history chosen.
LEMMA FinishInv == ASSUME SetInv, Finish PROVE SetInv'
<1>1. ServerTyped' /\ CachesTyped' /\ QueueTyped'
  BY ReadsType DEF SetInv, ServerTyped, CachesTyped, QueueTyped, Finish, server, caches
<1>2. pc = "finish" /\ UNCHANGED <<before, listed, rev, todo, kept, left, victims>>
  BY DEF Finish
<1>3. CurrentRevision \in RevName \cup {NoName}
  BY <1>2 DEF CurrentRevision, SetInv, WorkerTyped, RevisionTyped, HasRevision,
              RevisionObject, SetStatus
<1>4. st' \in SetStatus
  BY <1>3 DEF Finish, SetInv, WorkerTyped, SetStatus
<1>5. /\ pc' \in {"patch", "truncate"} /\ requeue' = requeue
      /\ drop' \subseteq RevName
  <2>1. Histories \subseteq RevName
    BY DEF Histories, NamesOf, ListRevision, SetInv, CachesTyped, Distinguished, RevisionObject
  <2>2. QED
    BY <2>1 DEF Finish, Goto, Surplus, SetInv, WorkerTyped
<1>6. WorkerTyped'
  BY <1>2, <1>4, <1>5 DEF SetInv, WorkerTyped, RevisionTyped, Steps, HasRevision
<1>7. QED
  BY <1>1, <1>6 DEF SetInv

\* Revisions are dropped one by one.
LEMMA TruncateHistoryInv ==
    ASSUME SetInv, NEW name \in drop, TruncateHistory(name) PROVE SetInv'
<1>1. CachesTyped' /\ queued' = queued
  BY DEF SetInv, CachesTyped, TruncateHistory, caches
<1>2. ServerTyped' /\ QueueTyped'
  <2>1. CASE revs' \subseteq revs /\ UNCHANGED <<set, runners, owed, events>>
    <3>1. Distinguished(revs')
      BY <2>1, ListRevisionType DEF SetInv, ServerTyped
    <3>2. QED
      BY <1>1, <2>1, <3>1 DEF SetInv, ServerTyped, QueueTyped
  <2>2. CASE UNCHANGED <<server, events>> \/ CallFails
    BY <1>1, <2>2, HappensType DEF SetInv, ServerTyped, QueueTyped, server, CallFails
  <2>3. QED
    BY <2>1, <2>2 DEF TruncateHistory
<1>3. /\ pc = "truncate" /\ drop' \subseteq drop
      /\ UNCHANGED <<before, st, listed, rev, todo, kept, left, victims>>
      /\ pc' \in {"patch", "truncate"} /\ requeue' \in BOOLEAN
  BY DEF TruncateHistory, Goto, ReturnError, SetInv, WorkerTyped
<1>4. WorkerTyped'
  BY <1>3 DEF SetInv, WorkerTyped, RevisionTyped, Steps, HasRevision
<1>5. QED
  BY <1>1, <1>2, <1>4 DEF SetInv

\* The status that is written mixes the one in memory with the one stored.
LEMMA MergedStatusType ==
    ASSUME NEW b \in SetStatus, NEW s \in SetStatus, NEW u \in SetStatus
    PROVE  [f \in DOMAIN s |-> MergeField(b[f], s[f], u[f])] \in SetStatus
<1> DEFINE F == {"runners", "idle", "active", "current", "next", "collisions"}
<1>1. DOMAIN s = F
  BY DEF SetStatus
<1>2. PICK m : m = [f \in DOMAIN s |-> MergeField(b[f], s[f], u[f])]
  OBVIOUS
<1>3. ASSUME NEW f \in F PROVE m[f] \in {s[f], u[f]}
  BY <1>1, <1>2, <1>3 DEF MergeField
<1>4. /\ m.runners \in Nat /\ m.idle \in Nat /\ m.active \in Nat
      /\ m.current \in RevName \cup {NoName} /\ m.next \in RevName \cup {NoName}
      /\ m.collisions \in CollisionCount
  BY <1>3 DEF SetStatus
<1>5. m = [runners |-> m.runners, idle |-> m.idle, active |-> m.active,
           current |-> m.current, next |-> m.next, collisions |-> m.collisions]
  BY <1>1, <1>2
<1>6. QED
  BY <1>2, <1>4, <1>5 DEF SetStatus

\* After a reconcile nothing of it is left.
LEMMA DoneType ==
    ASSUME SetInv, NEW again \in BOOLEAN, Done(again)
    PROVE  WorkerTyped' /\ queued' \in BOOLEAN
BY EmptyTypes DEF SetInv, QueueTyped, Done, WorkerTyped, RevisionTyped, Steps, HasRevision

\* The deferred patch writes a status.
LEMMA PatchStatusInv == ASSUME SetInv, PatchStatus PROVE SetInv'
<1>1. CachesTyped'
  BY DEF SetInv, CachesTyped, PatchStatus, caches
<1>2. WorkerTyped' /\ queued' \in BOOLEAN
  <2>1. requeue \in BOOLEAN /\ TRUE \in BOOLEAN
    BY DEF SetInv, WorkerTyped
  <2>2. QED
    BY <2>1, DoneType DEF PatchStatus
<1>3. ServerTyped' /\ events' \in 0..MaxEvents
  <2>1. CASE UNCHANGED <<server, events>> \/ CallFails
    BY <2>1, HappensType DEF SetInv, ServerTyped, QueueTyped, server, CallFails
  <2>2. CASE /\ set.alive /\ set' = [set EXCEPT !.status = MergedStatus]
             /\ UNCHANGED <<runners, owed, revs, events>>
    <3>1. before.status \in SetStatus /\ st \in SetStatus /\ set.status \in SetStatus
      BY <2>2, StoredSetType, PresentSet DEF PatchStatus, SetInv, ServerTyped, WorkerTyped
    <3>2. MergedStatus \in SetStatus
      BY <3>1, MergedStatusType DEF MergedStatus
    <3>3. set' \in StoredSet
      BY <2>2, <3>2, StoredSetType DEF SetInv, ServerTyped
    <3>4. QED
      BY <2>2, <3>3 DEF SetInv, ServerTyped, QueueTyped
  <2>3. QED
    BY <2>1, <2>2 DEF PatchStatus
<1>4. QED
  BY <1>1, <1>2, <1>3 DEF SetInv, QueueTyped

-----------------------------------------------------------------------------
(* The steps of everyone else leave the worker alone.                      *)

\* An edit stores what defaulting made of it.
LEMMA EditSpecType ==
    ASSUME SetInv, EditSet
    PROVE  /\ \E s \in StoredSpec : EditSpec(s)
           /\ events' \in 0..MaxEvents
<1>1. events' \in 0..MaxEvents
  BY HappensType DEF EditSet, SetInv
<1>2. set.alive
  BY DEF EditSet, EditSpec
<1>3. set.spec \in StoredSpec
  BY <1>2, StoredSetType DEF SetInv, ServerTyped
<1>4. CASE \E n \in Counts : EditSpec(Default([set.spec EXCEPT !.runners = n]))
  <2>1. PICK n \in Counts : EditSpec(Default([set.spec EXCEPT !.runners = n]))
    BY <1>4
  <2>2. [set.spec EXCEPT !.runners = n] \in StoredSpec
    BY <1>3, SetConstantsAssumption DEF StoredSpec, Spec1alpha2
  <2>3. QED
    BY <1>1, <2>1, <2>2, DefaultType
<1>5. CASE \E t \in Templates : EditSpec(Default([set.spec EXCEPT !.template = t]))
  <2>1. PICK t \in Templates : EditSpec(Default([set.spec EXCEPT !.template = t]))
    BY <1>5
  <2>2. [set.spec EXCEPT !.template = t] \in Spec1alpha2
        /\ [set.spec EXCEPT !.template = t].template \in Templates
    BY <1>3, SetConstantsAssumption DEF StoredSpec, Spec1alpha2
  <2>3. QED
    BY <1>1, <2>1, <2>2, DefaultType
<1>6. CASE \E y \in Strategies : EditSpec(Default([set.spec EXCEPT !.strategy = y]))
  <2>1. PICK y \in Strategies : EditSpec(Default([set.spec EXCEPT !.strategy = y]))
    BY <1>6
  <2>2. [set.spec EXCEPT !.strategy = y] \in StoredSpec
    BY <1>3, SetConstantsAssumption DEF StoredSpec, Spec1alpha2
  <2>3. QED
    BY <1>1, <2>1, <2>2, DefaultType
<1>7. CASE \E n \in Counts : EditSpec(Default(ScaledByV1alpha1(set.spec, n)))
  <2>1. PICK n \in Counts : EditSpec(Default(ScaledByV1alpha1(set.spec, n)))
    BY <1>7
  <2>2. ScaledByV1alpha1(set.spec, n) \in StoredSpec
    BY <1>3, SetConstantsAssumption, ConversionType
  <2>3. QED
    BY <1>1, <2>1, <2>2, DefaultType
<1>8. QED
  BY <1>4, <1>5, <1>6, <1>7 DEF EditSet

\* A step that leaves the worker, the caches and the queue alone needs to
\* keep the types of the server's objects only.
LEMMA ServerStep ==
    ASSUME SetInv, UNCHANGED <<caches, queued, worker>>, ServerTyped',
           events' \in 0..MaxEvents
    PROVE  SetInv'
<1>1. CachesTyped' /\ QueueTyped'
  BY DEF SetInv, CachesTyped, QueueTyped, caches
<1>2. WorkerTyped'
  BY DEF SetInv, WorkerTyped, RevisionTyped, worker
<1>3. QED
  BY <1>1, <1>2 DEF SetInv

\* Users keep the types.
LEMMA UsersInv == ASSUME SetInv, Users PROVE SetInv'
<1>1. CASE EditSet
  <2>1. PICK s \in StoredSpec : EditSpec(s)
    BY <1>1, EditSpecType
  <2>2. set' \in StoredSet
    BY <2>1, StoredSetType DEF EditSpec, SetInv, ServerTyped
  <2>3. QED
    BY <1>1, <2>1, <2>2, EditSpecType, ServerStep DEF EditSpec, SetInv, ServerTyped
<1>2. CASE DeleteSet
  <2>1. set' \in StoredSet
    BY <1>2, StoredSetType, EmptyTypes DEF DeleteSet, SetInv, ServerTyped
  <2>2. QED
    BY <1>2, <2>1, HappensType, ServerStep DEF DeleteSet, SetInv, ServerTyped
<1>3. ASSUME NEW n \in Names, RemoveRunner(n) PROVE SetInv'
  BY <1>3, DeletedType, HappensType, ServerStep DEF RemoveRunner, SetInv, ServerTyped
<1>4. ASSUME NEW n \in Names, CreateOrphan(n) PROVE SetInv'
  <2>1. [NoRunner EXCEPT !.exists = TRUE, !.match = TRUE] \in RunnerCopy
    BY EmptyTypes DEF RunnerCopy
  <2>2. QED
    BY <1>4, <2>1, WriteRunnerType, HappensType, ServerStep
    DEF CreateOrphan, SetInv, ServerTyped
<1>5. ASSUME NEW n \in Names, OtherAdopts(n) PROVE SetInv'
  <2>1. [runners[n] EXCEPT !.owner = "other"] \in RunnerCopy
    BY DEF SetInv, ServerTyped, RunnerCopy
  <2>2. QED
    BY <1>5, <2>1, WriteRunnerType, HappensType, ServerStep
    DEF OtherAdopts, SetInv, ServerTyped
<1>6. QED
  BY <1>1, <1>2, <1>3, <1>4, <1>5 DEF Users

\* Runners and the garbage collector keep the types.
LEMMA RunnersInv == ASSUME SetInv, Runners PROVE SetInv'
<1>1. ASSUME NEW n \in Names, ReportPhase(n) PROVE SetInv'
  <2>1. PICK p \in Phases : WriteRunner(n, [runners[n] EXCEPT !.phase = p])
    BY <1>1 DEF ReportPhase
  <2>2. [runners[n] EXCEPT !.phase = p] \in RunnerCopy
    BY DEF SetInv, ServerTyped, RunnerCopy
  <2>3. QED
    BY <1>1, <2>1, <2>2, WriteRunnerType, HappensType, ServerStep
    DEF ReportPhase, SetInv, ServerTyped
<1>2. ASSUME NEW n \in Names, RunnerGone(n) PROVE SetInv'
  BY <1>2, EmptyTypes, WriteRunnerType, ServerStep
  DEF RunnerGone, SetInv, ServerTyped, QueueTyped
<1>3. ASSUME NEW n \in Names, CollectRunner(n) PROVE SetInv'
  BY <1>3, DeletedType, ServerStep DEF CollectRunner, SetInv, ServerTyped, QueueTyped
<1>4. QED
  BY <1>1, <1>2, <1>3 DEF Runners

\* So do the informers.
LEMMA InformersInv == ASSUME SetInv, Informers PROVE SetInv'
<1>1. ServerTyped' /\ CachesTyped' /\ QueueTyped'
  BY DEF Informers, SyncSet, SyncRunnerCache, SyncRevisions, SetInv, ServerTyped,
         CachesTyped, QueueTyped, server
<1>2. WorkerTyped'
  BY DEF Informers, SyncSet, SyncRunnerCache, SyncRevisions, SetInv, WorkerTyped,
         RevisionTyped, worker
<1>3. QED
  BY <1>1, <1>2 DEF SetInv

\* A new manager starts with caches filled and nothing in progress.
LEMMA RestartInv == ASSUME SetInv, RestartManager PROVE SetInv'
<1>1. Restart /\ events' \in 0..MaxEvents
  BY HappensType DEF RestartManager, SetInv, QueueTyped
<1>2. set.alive \in BOOLEAN
  BY EmptyTypes DEF SetInv, ServerTyped, StoredSet, SetObject
<1>3. WorkerTyped' /\ queued' \in BOOLEAN
  BY <1>1, <1>2, DoneType DEF Restart
<1>4. ServerTyped' /\ CachesTyped'
  BY <1>1 DEF Restart, SetInv, ServerTyped, CachesTyped
<1>5. QED
  BY <1>1, <1>3, <1>4 DEF SetInv, QueueTyped

\* Every step of the system keeps the inductive invariant.
LEMMA SetInvStep == SetInv /\ [Next]_vars => SetInv'
<1> SUFFICES ASSUME SetInv, [Next]_vars PROVE SetInv'
  OBVIOUS
<1>1. CASE ReconcileStep
  <2>1. ASSUME NEW n \in Names, AdoptRunner(n) \/ DiscardRunner(n) \/ DeleteRunner(n)
        PROVE  SetInv'
    BY <2>1, AdoptRunnerInv, DiscardRunnerInv, DeleteRunnerInv
  <2>2. QED
    BY <1>1, <2>1, ReconcileInv, MakeHistoryInv, BumpRevisionInv, CreateRevisionInv,
       FindRunnersInv, SyncRunnersInv, CreateRunnerInv, FinishInv, PatchStatusInv,
       TruncateHistoryInv
    DEF ReconcileStep
<1>2. CASE CollectSet
  <2>1. ServerTyped' /\ events' \in 0..MaxEvents
    BY <1>2, EmptyTypes DEF CollectSet, SetInv, ServerTyped, QueueTyped
  <2>2. QED
    BY <1>2, <2>1, ServerStep DEF CollectSet
<1>3. CASE UNCHANGED vars
  <2>1. ServerTyped' /\ events' \in 0..MaxEvents
    BY <1>3 DEF vars, SetInv, ServerTyped, QueueTyped
  <2>2. UNCHANGED <<caches, queued, worker>>
    BY <1>3 DEF vars, caches, worker
  <2>3. QED
    BY <2>1, <2>2, ServerStep
<1>4. QED
  BY <1>1, <1>2, <1>3, UsersInv, RunnersInv, InformersInv, RestartInv DEF Next

\* SetInv is an invariant of the system.
THEOREM SetInvariant == Spec => []SetInv
BY InitSetInv, SetInvStep, PTL DEF Spec

\* Whatever users, Runners, other controllers and faults do, the objects,
\* the caches and the variables of RunnerSetReconciler.Reconcile keep their
\* types: a status never gets a negative counter or the name of no revision,
\* although controller, conversion and defaulting all write the set.
THEOREM SetTypeCorrect == Spec => []SetTypeOK
BY SetInvariant, SetInvTypes, PTL

=============================================================================
