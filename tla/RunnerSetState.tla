---------------------------- MODULE RunnerSetState ----------------------------
(***************************************************************************)
(* The state of one RunnerSet: the set, the Runners its selector may pick  *)
(* and its ControllerRevisions on the API server, the informer caches the  *)
(* RunnerSet controller reads, and its one reconcile in progress.          *)
(*                                                                         *)
(*   set          the RunnerSet: alive until it is gone, deleting once a   *)
(*                foreground deletion has set the deletionTimestamp.       *)
(*   runners      Runner name -> Runner.  owner is its controller: "us" is *)
(*                this set, "other" another one.  rev is the value of its  *)
(*                revision-hash label, match whether its labels match the  *)
(*                selector.                                                *)
(*   revs         the ControllerRevisions of the set.                      *)
(*   setCache, runnerCache, revCache                                       *)
(*                their copies in the informer caches; a copy that differs *)
(*                is behind.                                               *)
(*   owed         watch events of Runners of this set are on their way.    *)
(*   queued       the key waits in the work queue.                         *)
(*   events       what users, Runners and faults have done so far.         *)
(*   pc           where the reconcile is.                                  *)
(*   before, st   the RunnerSet as read, and its status in memory.         *)
(*   listed       the revisions ListRevision answered MakeHistory.         *)
(*   rev          the revision MakeHistory returns.                        *)
(*   todo, kept   Runners listed that await a call; Runners findRunners    *)
(*                keeps: both name -> copy.                                *)
(*   left         Runners still to be created.                             *)
(*   victims      Runners still to be deleted.                             *)
(*   drop         names of revisions still to be deleted.                  *)
(*   requeue      the reconcile has met an error.                          *)
(***************************************************************************)
EXTENDS Naturals, FiniteSets

CONSTANTS
    Names,       \* names generateName hands out; one is used again once free
    Templates,   \* values of spec.template users write
    Counts,      \* values of spec.runners users write
    Strategies,  \* values of spec.updateStrategy.type users write
    Limits,      \* values of spec.revisionHistoryLimit users write
    Selector,    \* labels spec.selector asks for
    Hash(_, _),  \* FNV of the revision's data and the collision count
    Events,      \* what may happen from outside: see EventKinds
    MaxEvents,   \* how often, all kinds together
    RoleDeletesRevisions   \* the manager's role may delete ControllerRevisions

(***************************************************************************)
(*   "scale", "template", "strategy"  a user edits the set (v1alpha2)      *)
(*   "v1alpha1"  a v1alpha1 client scales the set                          *)
(*   "delete"    a user deletes the set                                    *)
(*   "phase"     the Runner controller reports another phase               *)
(*   "remove"    a user deletes a Runner                                   *)
(*   "orphan"    a user creates a Runner the selector matches              *)
(*   "adopt"     another controller adopts a Runner without owner          *)
(*   "call"      a call of the reconcile fails                             *)
(*   "lag"       the reconcile reads a cache that is behind                *)
(*   "crash"     the manager dies and is started again                     *)
(***************************************************************************)
EventKinds == {"scale", "template", "strategy", "v1alpha1", "delete", "phase",
               "remove", "orphan", "adopt", "call", "lag", "crash"}

VARIABLES
    set, runners, owed, revs, setCache, runnerCache, revCache, queued, events,
    pc, before, st, listed, rev, todo, kept, left, victims, drop, requeue

caches == <<setCache, runnerCache, revCache>>
server == <<set, runners, owed, revs>>
worker == <<pc, before, st, listed, rev, todo, kept, left, victims, drop, requeue>>
vars   == <<set, runners, owed, revs, setCache, runnerCache, revCache, queued, events,
            pc, before, st, listed, rev, todo, kept, left, victims, drop, requeue>>

-----------------------------------------------------------------------------
\* status.collisionCount is nil until the first status write, 0 afterwards:
\* the loop that would raise it never ends (see CreateRevision)
CollisionCount == {"nil", "0"}

EvictionPolicies == {"Never", "IfNotActive"}

\* the templates that can be stored: defaulting adds a label, a v1alpha1
\* client resets the eviction policy
Stored(t, e)    == [t EXCEPT !.labels = @ \cup {"runnerset"}, !.eviction = e]
StoredTemplates == UNION {{Stored(t, e) : e \in EvictionPolicies} : t \in Templates}

NoName  == <<>>
RevName == UNION {{Hash(t, c) : c \in CollisionCount} : t \in StoredTemplates}

\* spec.template, as far as the set cares: labels by name, the URL by whether
\* it is one of Github, the rest of the spec by version
Template == [version : Nat, labels : SUBSET {"runnerset", "app"},
             url : {"github", "elsewhere"}, eviction : EvictionPolicies]

Spec1alpha2 == [runners : Nat, template : Template,
                strategy : {"RollingUpdate", "OnDelete"}, limit : Nat]

SetStatus == [runners : Nat, idle : Nat, active : Nat,
              current : RevName \cup {NoName}, next : RevName \cup {NoName},
              collisions : CollisionCount]

SetObject == [alive : BOOLEAN, deleting : BOOLEAN, spec : Spec1alpha2,
              status : SetStatus]

\* "Pending" also stands for a Runner without a phase
Phases    == {"Pending", "Idle", "Active", "Complete"}

RunnerCopy == [exists : BOOLEAN, owner : {"us", "other", "none"}, phase : Phases,
               deleting : BOOLEAN, rev : RevName \cup {NoName}, match : BOOLEAN]

\* born orders the creation times
RevisionObject == [name : RevName, data : Template, number : Nat, born : Nat]

Steps == {"idle", "history", "bump", "create", "find", "examine", "createRunner",
          "deleteRunner", "finish", "truncate", "patch", "panic"}

NewStatus == [runners |-> 0, idle |-> 0, active |-> 0, current |-> NoName,
              next |-> NoName, collisions |-> "nil"]
NewSet(s) == [alive |-> TRUE, deleting |-> FALSE, spec |-> s, status |-> NewStatus]
NoSet     == [alive |-> FALSE, deleting |-> FALSE]

NoRunner  == [exists |-> FALSE, owner |-> "none", phase |-> "Pending",
              deleting |-> FALSE, rev |-> NoName, match |-> FALSE]

NoneListed == [n \in {} |-> NoRunner]
NoRevision == [name |-> NoName, number |-> 0, born |-> 0]

ASSUME SetConstantsAssumption ==
    /\ IsFiniteSet(Names)
    /\ Templates \subseteq Template
    /\ Counts \subseteq Nat /\ Limits \subseteq Nat
    /\ Strategies \subseteq {"RollingUpdate", "OnDelete"}
    /\ Selector \subseteq {"runnerset", "app"}
    /\ Events \subseteq EventKinds /\ MaxEvents \in Nat
    /\ RoleDeletesRevisions \in BOOLEAN

\* something of kind k happens
Happens(k) == k \in Events /\ events < MaxEvents /\ events' = events + 1

\* Runner n becomes r: an event for the controller it had and the one it has
WriteRunner(n, r) ==
    /\ runners' = [runners EXCEPT ![n] = r]
    /\ owed' = (owed \/ (r # runners[n] /\ "us" \in {runners[n].owner, r.owner}))

\* a cache is read that may be behind what the server has
Reads(cache, truth) == IF cache = truth THEN UNCHANGED events ELSE Happens("lag")

\* the selector matches the labels of template t
Selects(t) == Selector \subseteq t.labels

=============================================================================
