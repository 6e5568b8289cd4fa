------------------------------- MODULE Revision -------------------------------
(***************************************************************************)
(* pkg/revision: the operators of the history.  A ControllerRevision is a  *)
(* record of its name, its data (the template) and its revision number.    *)
(***************************************************************************)
EXTENDS RunnerSetState, Patcher, FiniteSetsExt

\* ListRevision: by the selector, on the labels the revision took over from
\* the template it was made for
ListRevision == {r \in revCache : Selects(r.data)}

\* SortableRevisions: by number, then by creation time
Less(r, q) == r.number < q.number \/ (r.number = q.number /\ r.born < q.born)

\* the last one of the sorted list
Latest(S) == CHOOSE r \in S : \A q \in S \ {r} : Less(q, r)

NextRevisionNumber(S) == IF S = {} THEN 1 ELSE Latest(S).number + 1

\* the creation time of a revision added to S
Born(S) == 1 + Max({0} \cup {r.born : r \in S})

\* of spec s only the template is kept: runners, strategy and limit may
\* change without a new revision
ObjectPatch(s) == s.template

\* the revision that would be made for spec s
NextRevision(s, collisions, S) ==
    [name |-> Hash(ObjectPatch(s), collisions), data |-> ObjectPatch(s),
     number |-> NextRevisionNumber(S), born |-> 0]

\* IsEqual compares the data: a hash label is hardly ever a number, so the
\* comparison of the labels does not take place
IsEqual(r, q) == r.data = q.data

\* mutant: revisions are told apart by their names
FindEqualByName(S, needle) == {r \in S : r.name = needle.name}

FindEqual(S, needle) == {r \in S : IsEqual(r, needle)}

NamesOf(S) == {r.name : r \in S}

=============================================================================
