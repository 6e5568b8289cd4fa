------------------------------ MODULE Conversion ------------------------------
(***************************************************************************)
(* What a v1alpha1 client does to a stored (v1alpha2) RunnerSet: the API   *)
(* server converts the object for it, and converts what it writes back.    *)
(* v1alpha1 has no updateStrategy, no revisionHistoryLimit and no          *)
(* evictionPolicy; those come back empty and the schema fills in its       *)
(* defaults.                                                               *)
(***************************************************************************)
EXTENDS Naturals

DefaultLimit    == 10
DefaultStrategy == "OnDelete"
DefaultEviction == "IfNotActive"

ConvertTemplateFrom(t) == [version |-> t.version, labels |-> t.labels, url |-> t.url]

ConvertFrom(s) == [runners |-> s.runners, template |-> ConvertTemplateFrom(s.template)]

ConvertTemplateTo(t) ==
    [version |-> t.version, labels |-> t.labels, url |-> t.url, eviction |-> ""]

ConvertTo(s) == [runners |-> s.runners, template |-> ConvertTemplateTo(s.template),
                 strategy |-> "", limit |-> "nil"]

\* defaults of the custom resource definition
Defaulted(s) ==
    [runners  |-> s.runners,
     template |-> [s.template EXCEPT !.eviction = IF @ = "" THEN DefaultEviction ELSE @],
     strategy |-> IF s.strategy = "" THEN DefaultStrategy ELSE s.strategy,
     limit    |-> IF s.limit = "nil" THEN DefaultLimit ELSE s.limit]

\* a v1alpha1 client sets spec.runners
ScaledByV1alpha1(s, n) == Defaulted(ConvertTo([ConvertFrom(s) EXCEPT !.runners = n]))

=============================================================================
