------------------------------ MODULE MCRunnerSet ------------------------------
(***************************************************************************)
(* Values for the constants of RunnerSetSystem.                            *)
(***************************************************************************)
EXTENDS RunnerSetSystem, TLC

T(v, labels, url, eviction) ==
    [version |-> v, labels |-> labels, url |-> url, eviction |-> eviction]

OneTemplate == {T(1, {}, "github", "IfNotActive")}

\* one to change to and one the webhook refuses
LivenessTemplates == OneTemplate \cup {T(2, {}, "github", "IfNotActive"),
                                       T(3, {}, "elsewhere", "IfNotActive")}

\* a second template with another eviction policy, and one whose hash is that
\* of the first
RolloutTemplates == {T(1, {"app"}, "github", "IfNotActive"),
                     T(2, {"app"}, "github", "Never"),
                     T(4, {"app"}, "github", "IfNotActive")}

\* the second template has lost a label
RelabelledTemplates == {T(1, {"app"}, "github", "IfNotActive"),
                        T(1, {}, "github", "IfNotActive")}

Distinct(t, c) == <<t, c>>
Colliding(t, c) == <<[t EXCEPT !.version = IF @ = 4 THEN 1 ELSE @], c>>

\* templates that differ in their version only are alike: start with one
FromFirst == Init /\ set.spec.template.version = 1
FirstFairSpec == FromFirst /\ [][Next]_vars /\ Fairness

NameSymmetry == Permutations(Names)
=============================================================================
